---------------------------- MODULE Spec2Model ----------------------------
(***************************************************************************)
(* Funk-Volume-Changer: the lyrics subsystem.                              *)
(*                                                                         *)
(*   - the App component's "fetch lyrics" effect, its stale-response       *)
(*     guard and its "sync active lyrics line" effect (App.tsx);           *)
(*   - fetchLyrics, searchLrcLib, parseVideoTitle, lightClean, heavyClean  *)
(*     and parseSyncedLyrics (utils/colorExtractor.ts).                    *)
(*                                                                         *)
(* Strings are sequences of characters; a character is a one-letter        *)
(* string.  Times are integers in hundredths of a second, the resolution   *)
(* of an LRC tag [MM:SS.ss].                                               *)
(***************************************************************************)
EXTENDS Integers, Sequences, FiniteSets, TLC

(***************************************************************************)
(* Characters and the character classes of the JavaScript regexes.         *)
(***************************************************************************)

\* U+2013 and U+2014, each one character of the title.
EnDash == "ndash"
EmDash == "mdash"

UpperCase ==
  <<"A","B","C","D","E","F","G","H","I","J","K","L","M",
    "N","O","P","Q","R","S","T","U","V","W","X","Y","Z">>
LowerCase ==
  <<"a","b","c","d","e","f","g","h","i","j","k","l","m",
    "n","o","p","q","r","s","t","u","v","w","x","y","z">>
Digits == <<"0","1","2","3","4","5","6","7","8","9">>

Range(f) == {f[i] : i \in DOMAIN f}
Min(S) == CHOOSE x \in S : \A y \in S : x <= y
Max(S) == CHOOSE x \in S : \A y \in S : x >= y

\* The /i flag: characters are compared after case folding.
Lower(c) ==
  IF c \in Range(UpperCase)
    THEN LowerCase[CHOOSE i \in DOMAIN UpperCase : UpperCase[i] = c]
    ELSE c

\* \d, \w, \s and the line terminators that "." does not match.
IsDigit(c) == c \in Range(Digits)
DigitVal(c) == (CHOOSE i \in DOMAIN Digits : Digits[i] = c) - 1
IsWordChar(c) ==
  c \in Range(UpperCase) \cup Range(LowerCase) \cup Range(Digits) \cup {"_"}
IsSpace(c) == c \in {" ", "\t", "\n", "\r"}
IsLineTerminator(c) == c \in {"\n", "\r"}

(***************************************************************************)
(* Regex building blocks on a string s, positions from 1.                  *)
(***************************************************************************)

\* s.slice(a - 1, b): the characters a..b of s.
Slice(s, a, b) == IF a > b THEN <<>> ELSE SubSeq(s, a, b)

\* The literal w matches s at position i, ignoring case.
MatchAt(s, i, w) ==
  /\ i >= 1
  /\ i + Len(w) - 1 <= Len(s)
  /\ \A j \in 1..Len(w) : Lower(s[i + j - 1]) = Lower(w[j])

\* "." matches every character of s[a..b].
NoLineTerminator(s, a, b) == \A j \in a..b : ~IsLineTerminator(s[j])

\* \b at the gap before position i.
WordBoundary(s, i) ==
  LET before == i > 1 /\ i - 1 <= Len(s) /\ IsWordChar(s[i - 1])
      after  == i >= 1 /\ i <= Len(s) /\ IsWordChar(s[i])
  IN  before # after

\* \s* from position i: the position of the first non-space character.
SkipSpaces(s, i) ==
  LET stops == {j \in i..Len(s) : ~IsSpace(s[j])}
  IN  IF stops = {} THEN Len(s) + 1 ELSE Min(stops)

\* String.prototype.replace with a /g regex: ends[i] is the last position
\* of the match that starts at i, or 0 when the regex does not match there;
\* the scan resumes after each match.
ReplaceAll(s, ends, repl) ==
  LET F[i \in 1..(Len(s) + 1)] ==
        IF i > Len(s) THEN <<>>
        ELSE IF ends[i] >= i THEN repl \o F[ends[i] + 1]
        ELSE <<s[i]>> \o F[i + 1]
  IN  F[1]

\* String.prototype.trim.
Trim(s) ==
  LET keep == {j \in 1..Len(s) : ~IsSpace(s[j])}
  IN  IF keep = {} THEN <<>> ELSE SubSeq(s, Min(keep), Max(keep))

(***************************************************************************)
(* The words of the title regexes.                                         *)
(***************************************************************************)

W_official == <<"o","f","f","i","c","i","a","l">>
W_video == <<"v","i","d","e","o">>
W_audio == <<"a","u","d","i","o">>
W_lyric == <<"l","y","r","i","c">>
W_hd == <<"h","d">>
W_4k == <<"4","k">>
W_full == <<"f","u","l","l">>
W_song == <<"s","o","n","g">>
W_mv == <<"m","v">>
W_from == <<"f","r","o","m">>
W_music == <<"m","u","s","i","c">>
W_ft == <<"f","t">>
W_feat == <<"f","e","a","t">>

\* (official|video|audio|lyric|hd|4k|full|song|mv) of cleanTitle, and the
\* same list with "from" of parseVideoTitle and lightClean.
NoiseWords ==
  {W_official, W_video, W_audio, W_lyric, W_hd, W_4k, W_full, W_song, W_mv}
NoiseWordsFrom == NoiseWords \cup {W_from}

(***************************************************************************)
(* One operator per regex: the last position of the match that starts at   *)
(* position i of s, or 0 when the regex does not match at i.               *)
(***************************************************************************)

\* /\(.*?(w1|w2|...).*?\)/ and its [ ] twin: an opening bracket, the first
\* noise word after it on the same line, the first closing bracket after
\* that word on the same line.
NoiseBracketEnd(s, i, open, close, words) ==
  IF s[i] # open THEN 0
  ELSE
    LET ks == {k \in (i + 1)..Len(s) :
                 /\ NoLineTerminator(s, i + 1, k - 1)
                 /\ \E w \in words : MatchAt(s, k, w)}
    IN  IF ks = {} THEN 0
        ELSE
          LET k  == Min(ks)
              w  == CHOOSE x \in words : MatchAt(s, k, x)
              e  == k + Len(w)
              ps == {p \in e..Len(s) :
                       s[p] = close /\ NoLineTerminator(s, e, p - 1)}
          IN  IF ps = {} THEN 0 ELSE Min(ps)

\* /\(.*?\)/ and /\[.*?\]/: an opening bracket up to the first closing
\* bracket on the same line.
AnyBracketEnd(s, i, open, close) ==
  IF s[i] # open THEN 0
  ELSE
    LET ps == {p \in (i + 1)..Len(s) :
                 s[p] = close /\ NoLineTerminator(s, i + 1, p - 1)}
    IN  IF ps = {} THEN 0 ELSE Min(ps)

\* /\|.*/: a pipe and the rest of its line.
PipeEnd(s, i) ==
  IF s[i] # "|" THEN 0
  ELSE
    LET ts == {p \in (i + 1)..Len(s) : IsLineTerminator(s[p])}
    IN  IF ts = {} THEN Len(s) ELSE Min(ts) - 1

\* /official\s*(music)?\s*video/i
OfficialVideoEnd(s, i) ==
  IF ~MatchAt(s, i, W_official) THEN 0
  ELSE
    LET j  == SkipSpaces(s, i + Len(W_official))
        j2 == IF MatchAt(s, j, W_music)
                THEN SkipSpaces(s, j + Len(W_music)) ELSE j
    IN  IF MatchAt(s, j2, W_video) THEN j2 + Len(W_video) - 1
        ELSE IF MatchAt(s, j, W_video) THEN j + Len(W_video) - 1
        ELSE 0

\* /\blyrics?\b/i
LyricsEnd(s, i) ==
  IF ~(WordBoundary(s, i) /\ MatchAt(s, i, W_lyric)) THEN 0
  ELSE
    LET e == i + Len(W_lyric)
    IN  IF MatchAt(s, e, <<"s">>) /\ WordBoundary(s, e + 1) THEN e
        ELSE IF WordBoundary(s, e) THEN e - 1
        ELSE 0

\* /\bhd\b|\b4k\b|\bfull\s*video\b/i
HdEnd(s, i) ==
  IF ~WordBoundary(s, i) THEN 0
  ELSE IF MatchAt(s, i, W_hd) /\ WordBoundary(s, i + 2) THEN i + 1
  ELSE IF MatchAt(s, i, W_4k) /\ WordBoundary(s, i + 2) THEN i + 1
  ELSE IF MatchAt(s, i, W_full)
    THEN LET j == SkipSpaces(s, i + Len(W_full))
         IN  IF MatchAt(s, j, W_video) /\ WordBoundary(s, j + Len(W_video))
               THEN j + Len(W_video) - 1 ELSE 0
  ELSE 0

\* /\bft\.?\s*/i and /\bfeat\.?\s*/i: the word w, an optional dot, spaces.
FeatEnd(s, i, w) ==
  IF ~(WordBoundary(s, i) /\ MatchAt(s, i, w)) THEN 0
  ELSE
    LET e == i + Len(w)
        d == IF MatchAt(s, e, <<".">>) THEN e + 1 ELSE e
    IN  SkipSpaces(s, d) - 1

\* /\s{2,}/: a run of two or more spaces.
SpaceRunEnd(s, i) ==
  IF ~IsSpace(s[i]) THEN 0
  ELSE LET e == SkipSpaces(s, i) - 1 IN IF e > i THEN e ELSE 0

(***************************************************************************)
(* The replace steps.                                                      *)
(***************************************************************************)

RemoveBracketed(s, open, close, words) ==
  ReplaceAll(s, [i \in 1..Len(s) |-> NoiseBracketEnd(s, i, open, close, words)],
             <<>>)

RemoveNoiseBrackets(s, words) ==
  RemoveBracketed(RemoveBracketed(s, "(", ")", words), "[", "]", words)

RemoveEnclosed(s, open, close) ==
  ReplaceAll(s, [i \in 1..Len(s) |-> AnyBracketEnd(s, i, open, close)], <<>>)

RemoveAllBrackets(s) == RemoveEnclosed(RemoveEnclosed(s, "(", ")"), "[", "]")

RemovePipe(s) == ReplaceAll(s, [i \in 1..Len(s) |-> PipeEnd(s, i)], <<>>)

RemoveOfficialVideo(s) ==
  ReplaceAll(s, [i \in 1..Len(s) |-> OfficialVideoEnd(s, i)], <<>>)

RemoveLyrics(s) == ReplaceAll(s, [i \in 1..Len(s) |-> LyricsEnd(s, i)], <<>>)

RemoveHd(s) == ReplaceAll(s, [i \in 1..Len(s) |-> HdEnd(s, i)], <<>>)

RemoveFeat(s, w) == ReplaceAll(s, [i \in 1..Len(s) |-> FeatEnd(s, i, w)], <<>>)

\* The five word-stripping replaces shared by cleanTitle and heavyClean.
RemoveLabels(s) ==
  RemoveFeat(RemoveFeat(RemoveHd(RemoveLyrics(RemoveOfficialVideo(s))), W_ft),
             W_feat)

\* .replace(/[\-–—]\s*$/, ''): not global, "$" is the end of the
\* string; the match starts at the one dash that only spaces follow.
RemoveTrailingDash(s) ==
  LET ds == {i \in 1..Len(s) :
               /\ s[i] \in {"-", EnDash, EmDash}
               /\ SkipSpaces(s, i + 1) = Len(s) + 1}
  IN  IF ds = {} THEN s ELSE Slice(s, 1, Min(ds) - 1)

CollapseSpaces(s) ==
  ReplaceAll(s, [i \in 1..Len(s) |-> SpaceRunEnd(s, i)], <<" ">>)

(***************************************************************************)
(* cleanTitle of the App; lightClean and heavyClean of the lyrics service. *)
(***************************************************************************)

cleanTitle(raw) ==
  Trim(CollapseSpaces(RemoveTrailingDash(RemoveLabels(RemovePipe(
    RemoveNoiseBrackets(raw, NoiseWords))))))

lightClean(raw) ==
  Trim(CollapseSpaces(RemoveTrailingDash(RemovePipe(
    RemoveNoiseBrackets(raw, NoiseWordsFrom)))))

heavyClean(raw) ==
  Trim(CollapseSpaces(RemoveTrailingDash(RemoveLabels(RemovePipe(
    RemoveAllBrackets(raw))))))

(***************************************************************************)
(* split, includes, and the null of JavaScript.                            *)
(***************************************************************************)

\* null (and undefined): no string is equal to it.
Null == <<"null">>

\* The truthiness of a string-or-null: neither null nor "".
Truthy(v) == v # Null /\ v # <<>>

\* The literal w occurs in s at position i (case-sensitive).
ExactAt(s, i, w) ==
  /\ i >= 1
  /\ i + Len(w) - 1 <= Len(s)
  /\ \A j \in 1..Len(w) : s[i + j - 1] = w[j]

\* s.includes(sep)
Includes(s, sep) == \E i \in 1..Len(s) : ExactAt(s, i, sep)

\* s.split(sep) for a non-empty sep: cut at each occurrence, left to right.
Split(s, sep) ==
  LET G[i \in 1..(Len(s) + 1)] ==
        LET ms == {k \in i..Len(s) : ExactAt(s, k, sep)}
        IN  IF ms = {} THEN << Slice(s, i, Len(s)) >>
            ELSE << Slice(s, i, Min(ms) - 1) >> \o G[Min(ms) + Len(sep)]
  IN  G[1]

\* The parts as split() leaves them, without the trim: only the empty
\* ones are dropped.
TrimmedPartsUntrimmed(s, sep) ==
  LET parts == Split(s, sep)
      NonEmpty(p) == p # <<>>
  IN  SelectSeq(parts, NonEmpty)

\* parts.map(p => p.trim()).filter(Boolean)
TrimmedParts(s, sep) ==
  LET parts == Split(s, sep)
      NonEmpty(p) == p # <<>>
  IN  SelectSeq([n \in 1..Len(parts) |-> Trim(parts[n])], NonEmpty)

(***************************************************************************)
(* parseVideoTitle                                                         *)
(***************************************************************************)

\* const separators = [' - ', ' – ', ' — ', ' : ']
separators ==
  << <<" ", "-", " ">>, <<" ", EnDash, " ">>, <<" ", EmDash, " ">>,
     <<" ", ":", " ">> >>

\* The pattern without its `$`: a second part that only begins like junk.
junkPatternUnanchored(p) ==
  \E w1 \in {W_lyric, W_official, W_full, W_audio, W_video, W_music} :
    MatchAt(p, 1, w1)

\* /^(lyric|official|full|audio|video|music)\s*(video|audio|song|mv)?$/i
junkPattern(p) ==
  \E w1 \in {W_lyric, W_official, W_full, W_audio, W_video, W_music} :
    /\ MatchAt(p, 1, w1)
    /\ LET j == SkipSpaces(p, 1 + Len(w1))
       IN  \/ j = Len(p) + 1
           \/ \E w2 \in {W_video, W_audio, W_song, W_mv} :
                MatchAt(p, j, w2) /\ j + Len(w2) = Len(p) + 1

\* The loop over the separators on the cleaned title: the first separator,
\* in list order, that the title includes and that leaves two parts decides.
SplitOnSeparator(cleaned) ==
  LET usable == {n \in DOMAIN separators :
                   /\ Includes(cleaned, separators[n])
                   /\ Len(TrimmedParts(cleaned, separators[n])) >= 2}
  IN  IF usable = {} THEN <<>>
      ELSE TrimmedParts(cleaned, separators[Min(usable)])

\* What the loop returns for the parts, or the final return.
GuessFromParts(parts) ==
  IF parts = <<>> THEN [artist |-> Null, track |-> Null]
  ELSE IF junkPattern(parts[2]) THEN [artist |-> Null, track |-> parts[1]]
  ELSE [artist |-> parts[1], track |-> parts[2]]

\* A parser that takes a title without separator for the track.
parseVideoTitleWhole(title) ==
  LET cleaned == Trim(RemovePipe(RemoveNoiseBrackets(title, NoiseWordsFrom)))
      parts   == SplitOnSeparator(cleaned)
  IN  IF parts = <<>> /\ cleaned # <<>>
        THEN [artist |-> Null, track |-> cleaned]
        ELSE GuessFromParts(parts)

parseVideoTitle(title) ==
  GuessFromParts(SplitOnSeparator(
    Trim(RemovePipe(RemoveNoiseBrackets(title, NoiseWordsFrom)))))

(***************************************************************************)
(* parseSyncedLyrics (the App's copy and the lyrics service's are the      *)
(* same text).  A line is {time, text}, time in hundredths of a second.    *)
(***************************************************************************)

\* line.match(/^\[(\d{2}):(\d{2}\.\d{2})\]\s*(.*)/) succeeds
LrcTagged(line) ==
  /\ Len(line) >= 10
  /\ line[1] = "[" /\ IsDigit(line[2]) /\ IsDigit(line[3]) /\ line[4] = ":"
  /\ IsDigit(line[5]) /\ IsDigit(line[6]) /\ line[7] = "."
  /\ IsDigit(line[8]) /\ IsDigit(line[9]) /\ line[10] = "]"

\* mins * 60 + secs, with mins = parseInt(match[1], 10) and
\* secs = parseFloat(match[2])
LrcTime(line) ==
  (DigitVal(line[2]) * 10 + DigitVal(line[3])) * 6000
  + (DigitVal(line[5]) * 10 + DigitVal(line[6])) * 100
  + DigitVal(line[8]) * 10 + DigitVal(line[9])

\* match[3].trim(): after the tag \s* takes the spaces, (.*) the rest up to
\* a line terminator.
LrcText(line) ==
  LET j  == SkipSpaces(line, 11)
      ts == {p \in j..Len(line) : IsLineTerminator(line[p])}
  IN  Trim(Slice(line, j, IF ts = {} THEN Len(line) ELSE Min(ts) - 1))

\* The parser without `if (text)`: a tagged line is pushed whatever its text.
parseSyncedLyricsKeepEmpty(raw) ==
  LET physical == Split(raw, <<"\n">>)
      kept == SelectSeq(physical, LrcTagged)
  IN  [n \in 1..Len(kept) |->
         [time |-> LrcTime(kept[n]), text |-> LrcText(kept[n])]]

\* The parser with a sort step: the pushed lines ordered by time.
parseSyncedLyricsSorted(raw) ==
  LET physical == Split(raw, <<"\n">>)
      Pushed(line) == LrcTagged(line) /\ LrcText(line) # <<>>
      kept == SelectSeq(physical, Pushed)
      Insert(sorted, x) ==
        LET ahead == {n \in 1..Len(sorted) : sorted[n].time <= x.time}
            at    == IF ahead = {} THEN 0 ELSE Max(ahead)
        IN  SubSeq(sorted, 1, at) \o <<x>> \o SubSeq(sorted, at + 1, Len(sorted))
      F[n \in 0..Len(kept)] ==
        IF n = 0 THEN <<>>
        ELSE Insert(F[n - 1],
                    [time |-> LrcTime(kept[n]), text |-> LrcText(kept[n])])
  IN  F[Len(kept)]

parseSyncedLyrics(raw) ==
  LET physical == Split(raw, <<"\n">>)
      Pushed(line) == LrcTagged(line) /\ LrcText(line) # <<>>
      kept == SelectSeq(physical, Pushed)
  IN  [n \in 1..Len(kept) |->
         [time |-> LrcTime(kept[n]), text |-> LrcText(kept[n])]]

(***************************************************************************)
(* Inputs: LRC texts, lyrics records of the search endpoint, video titles  *)
(* and playback times.                                                     *)
(***************************************************************************)

\* Bounds of the model.
MaxLrcLines == 2
MaxVideos == 2

\* Physical lines of an LRC text: tagged at 1.00 s, 1.20 s and 0.00 s, and
\* a tag without text.
LrcLineSamples ==
  { <<"[","0","0",":","0","1",".","0","0","]","a">>,
    <<"[","0","0",":","0","1",".","2","0","]"," ","b">>,
    <<"[","0","0",":","0","0",".","0","0","]","c">>,
    <<"[","0","0",":","0","2",".","0","0","]">> }

\* lines.join('\n')
JoinLines(ls) ==
  LET J[n \in 0..Len(ls)] ==
        IF n = 0 THEN <<>>
        ELSE IF n = 1 THEN ls[1]
        ELSE J[n - 1] \o <<"\n">> \o ls[n]
  IN  J[Len(ls)]

\* The LRC texts of one to MaxLrcLines physical lines, in any order.
LrcSamples ==
  UNION { {JoinLines(ls) : ls \in [1..n -> LrcLineSamples]} : n \in 1..MaxLrcLines }

PlainSample == <<"l","a">>

\* A record of the search endpoint (LrcLibResult).
LrcLibResult(id, instrumental, synced, plain, duration) ==
  [id |-> id, instrumental |-> instrumental, syncedLyrics |-> synced,
   plainLyrics |-> plain, duration |-> duration]

\* Video titles reported by the player: two whose cleaned query is not
\* empty, one whose cleaned query is empty.
TitleSamples ==
  { <<"a","b">>,
    <<"c","d"," ","(","h","d",")">>,
    <<"L","y","r","i","c","s">> }

\* Playback times (hundredths of a second) around the sample tags.
TimeSamples == {0, 100, 300, 900}

(***************************************************************************)
(* The App component: state.                                               *)
(***************************************************************************)

VARIABLES
  isLoading,            \* useState(false): a player is being created
  isReady,              \* useState(false): the player reported onReady
  currentTime,          \* useState(0), in hundredths of a second
  videoTitle,           \* useState('')
  lyrics,               \* useState<string | null>(null)
  syncedLines,          \* useState<LrcLine[]>([])
  lyricsLoading,        \* useState(false)
  lyricsError,          \* useState('')
  activeLyricIdx,       \* useState(-1), a 0-based index
  activeLyricDuration,  \* useState(3), in hundredths of a second
  attempts,             \* one entry per run of the fetch effect that issued
                        \* a request: the videoTitle of that run, its
                        \* closure's cancelled flag, and where its promise
                        \* chain stands: "pending", "committed" (a callback
                        \* ran to its end) or "discarded" (it saw cancelled)
  videosLoaded          \* how many URLs were submitted

appVars ==
  <<isLoading, isReady, currentTime, videoTitle, lyrics, syncedLines,
    lyricsLoading, lyricsError, activeLyricIdx, activeLyricDuration,
    attempts, videosLoaded>>

\* What the lyrics request's callbacks write.
lyricsState == <<lyrics, syncedLines, lyricsError, lyricsLoading>>

(***************************************************************************)
(* One call of fetchLyrics(videoTitle, videoDuration): state.              *)
(***************************************************************************)

VARIABLES
  callTitle,     \* the videoTitle argument
  callDuration,  \* the videoDuration argument, NoDuration when it is not passed
  pc,            \* "called", "await" (inside an await searchLrcLib),
                 \* "returned" or "rejected"
  strategy,      \* the strategy (1, 2, 3) whose search is awaited, else 0
  queries,       \* the params of every searchLrcLib call so far, in order
  outcomes,      \* how each of those requests ended
  pool,          \* const pool: LrcLibResult[]
  candidates,    \* let candidates, after both filters
  scored,        \* const scored, after the sort
  result         \* the value the promise resolved with

fetchVars ==
  <<callTitle, callDuration, pc, strategy, queries, outcomes, pool,
    candidates, scored, result>>

\* The argument and the return value of one call of a pure function; a
\* return value is <<>> before the call and <<value>> after it.
VARIABLES
  lrcInput,    \* parseSyncedLyrics: the physical lines of raw
  lrcLines,    \* parseSyncedLyrics: the returned lines
  rawTitle,    \* parseVideoTitle, lightClean, heavyClean: the title
  titleGuess,  \* parseVideoTitle: the returned {artist, track}
  lightTitle,  \* lightClean: the returned string
  heavyTitle   \* heavyClean: the returned string

pureVars ==
  <<lrcInput, lrcLines, rawTitle, titleGuess, lightTitle, heavyTitle>>

(***************************************************************************)
(* The ElasticVolumeSlider component: props, state and refs.               *)
(***************************************************************************)

VARIABLES
  volume,        \* the volume prop: the App's useState(50), set by onChange
  disabled,      \* the disabled prop
  onChangeCall,  \* the last call of the onChange prop: <<>> before the
                 \* first, then <<[from |-> the caller, value |-> v]>>
  dragging,      \* useRef(false); the state isDragging is set along with it
  charging,      \* useState(false)
  chargeLevel,   \* useState(0)
  chargeRef,     \* useRef(null): the id of an interval, 0 for null
  intervals,     \* the ids of the intervals that setInterval started and
                 \* no clearInterval stopped
  isShooting,    \* useState(false)
  target,        \* const target of the flight under way, 0 when none is
  elapsed,       \* now - startTime at the last frame of that flight, in ms
  shootRaf,      \* an animation frame is requested and not cancelled
  mounted        \* the component is mounted

sliderVars ==
  <<volume, disabled, onChangeCall, dragging, charging, chargeLevel,
    chargeRef, intervals, isShooting, target, elapsed, shootRaf, mounted>>

\* useState(3); lineStart + 4; Math.max(0.5, ...): in hundredths of a second.
InitialLineDuration == 300
TailWindow == 400
MinLineDuration == 50

NoLyricsFound == "No lyrics found for this track"
FailedToFetch == "Failed to fetch lyrics"

(***************************************************************************)
(* The "sync active lyrics line" effect, deps [currentTime, syncedLines].  *)
(***************************************************************************)

\* A scan from the first line that stops at the first line after t: the
\* index of the last line of the leading run of lines not after t.
ActiveIndexAscending(lines, t) ==
  LET after == {n \in 1..Len(lines) : lines[n].time > t}
  IN  IF after = {} THEN Len(lines) - 1 ELSE Min(after) - 2

\* for (let i = length - 1; i >= 0; i--) if (currentTime >= line.time)
\* { idx = i; break }: the 0-based index found, or -1.
ActiveIndex(lines, t) ==
  LET F[n \in 0..Len(lines)] ==
        IF n = 0 THEN -1
        ELSE IF t >= lines[n].time THEN n - 1
        ELSE F[n - 1]
  IN  F[Len(lines)]

\* lineEnd - lineStart without the floor of Math.max.
LineDurationUnfloored(lines, idx) ==
  LET lineStart == lines[idx + 1].time
      lineEnd   == IF idx + 1 < Len(lines)
                     THEN lines[idx + 2].time ELSE lineStart + TailWindow
  IN  lineEnd - lineStart

\* Math.max(0.5, lineEnd - lineStart) for the line at 0-based index idx.
LineDuration(lines, idx) ==
  LET lineStart == lines[idx + 1].time
      lineEnd   == IF idx + 1 < Len(lines)
                     THEN lines[idx + 2].time ELSE lineStart + TailWindow
  IN  Max({MinLineDuration, lineEnd - lineStart})

\* A run of the effect that falls back to the initial duration when no line
\* is active.
SyncActiveLineResetting(lines, t, idx, dur) ==
  IF Len(lines) = 0 THEN [idx |-> idx, dur |-> InitialLineDuration]
  ELSE
    LET found == ActiveIndex(lines, t)
    IN  [idx |-> found,
         dur |-> IF found >= 0 THEN LineDuration(lines, found)
                 ELSE InitialLineDuration]

\* One run of the effect: the new (activeLyricIdx, activeLyricDuration).
SyncActiveLine(lines, t, idx, dur) ==
  IF Len(lines) = 0 THEN [idx |-> idx, dur |-> dur]
  ELSE
    LET found == ActiveIndex(lines, t)
    IN  [idx |-> found,
         dur |-> IF found >= 0 THEN LineDuration(lines, found) ELSE dur]

\* setCurrentTime(t), and the effect when the value changed.
SetCurrentTime(t) ==
  LET run == SyncActiveLine(syncedLines, t, activeLyricIdx, activeLyricDuration)
  IN  /\ currentTime' = t
      /\ activeLyricIdx' = IF t = currentTime THEN activeLyricIdx ELSE run.idx
      /\ activeLyricDuration' =
           IF t = currentTime THEN activeLyricDuration ELSE run.dur

(***************************************************************************)
(* The "fetch lyrics" effect, deps [videoTitle].                           *)
(***************************************************************************)

\* cleanTitle and parseSyncedLyrics on the sample inputs, computed once.
cleanedTitle == [t \in TitleSamples |-> cleanTitle(t)]
parsedLrc == [r \in LrcSamples |-> parseSyncedLyrics(r)]

\* An effect that returns no cleanup: no closure is ever cancelled.
NoCleanup(as) == as

\* A cleanup that reaches the wrong closure: it cancels the runs before the
\* latest and leaves the latest live.
EffectCleanupOfEarlier(as) ==
  [n \in DOMAIN as |->
     IF n < Len(as) THEN [as[n] EXCEPT !.cancelled = TRUE] ELSE as[n]]

\* return () => { cancelled = true }: the cleanup of the previous run, which
\* React calls before the next run.  Only the last entry can still be live.
EffectCleanup(as) ==
  [n \in DOMAIN as |->
     IF n = Len(as) THEN [as[n] EXCEPT !.cancelled = TRUE] ELSE as[n]]

\* A find() that does not look at instrumental: the first record with lyrics.
FindBestAny(results) ==
  LET ok == {n \in DOMAIN results :
               Truthy(results[n].syncedLyrics) \/ Truthy(results[n].plainLyrics)}
  IN  IF ok = {} THEN 0 ELSE Min(ok)

\* results.find(r => !r.instrumental && (r.syncedLyrics || r.plainLyrics)):
\* the position of the first such record, 0 when there is none.
FindBest(results) ==
  LET ok == {n \in DOMAIN results :
               /\ ~results[n].instrumental
               /\ (Truthy(results[n].syncedLyrics) \/ Truthy(results[n].plainLyrics))}
  IN  IF ok = {} THEN 0 ELSE Min(ok)

\* Records that find() skips: an instrumental one, one without lyrics.
Skipped ==
  { LrcLibResult(2, TRUE, JoinLines(<<CHOOSE l \in LrcLineSamples : TRUE>>),
                 PlainSample, 200),
    LrcLibResult(2, FALSE, Null, <<>>, 200) }

\* Records the endpoint may return to the App's query, and its bodies: no
\* record, one record, or a record without synced lyrics behind a record
\* that find() skips.
AppRecords ==
  Skipped \cup
  { LrcLibResult(1, FALSE, sy, pl, 200) :
      sy \in LrcSamples \cup {Null}, pl \in {Null, PlainSample} }
AppBodies ==
  {<<>>} \cup {<<r>> : r \in AppRecords}
         \cup {<<d, LrcLibResult(1, FALSE, Null, pl, 200)>> :
                 d \in Skipped, pl \in {Null, PlainSample}}

\* The three ways the promise chain reaches .catch: fetch rejects, res.json()
\* rejects, results.find is not a function.
FailureKinds == {"network", "json", "notArray"}

AppInit ==
  /\ isLoading = FALSE
  /\ isReady = FALSE
  /\ currentTime = 0
  /\ videoTitle = <<>>
  /\ lyrics = Null
  /\ syncedLines = <<>>
  /\ lyricsLoading = FALSE
  /\ lyricsError = ""
  /\ activeLyricIdx = -1
  /\ activeLyricDuration = InitialLineDuration
  /\ attempts = <<>>
  /\ videosLoaded = 0

\* handleUrlSubmit with a URL of another video (the load button is disabled
\* while isLoading).
handleUrlSubmit ==
  /\ UNCHANGED <<fetchVars, pureVars, sliderVars>>
  /\ ~isLoading
  /\ videosLoaded < MaxVideos
  /\ videosLoaded' = videosLoaded + 1
  /\ SetCurrentTime(0)
  /\ isReady' = FALSE
  /\ isLoading' = TRUE
  /\ UNCHANGED <<videoTitle, lyrics, syncedLines, lyricsLoading, lyricsError,
                 attempts>>

\* An onReady whose fetch effect resets the lyrics but not the active index.
onReadyKeepingIndex(title) ==
  /\ UNCHANGED <<fetchVars, pureVars, sliderVars>>
  /\ isLoading
  /\ isReady' = TRUE
  /\ isLoading' = FALSE
  /\ UNCHANGED <<currentTime, activeLyricDuration, videosLoaded>>
  /\ IF title = <<>> \/ title = videoTitle
       THEN UNCHANGED <<videoTitle, lyrics, syncedLines, lyricsLoading,
                        lyricsError, activeLyricIdx, attempts>>
       ELSE
         /\ videoTitle' = title
         /\ IF cleanedTitle[title] = <<>>
              THEN \* if (!query) return
                /\ attempts' = EffectCleanup(attempts)
                /\ UNCHANGED <<lyrics, syncedLines, lyricsLoading, lyricsError,
                               activeLyricIdx>>
              ELSE
                /\ attempts' = Append(EffectCleanup(attempts),
                                      [title |-> title, cancelled |-> FALSE,
                                       state |-> "pending"])
                /\ lyricsLoading' = TRUE
                /\ lyricsError' = ""
                /\ lyrics' = Null
                /\ syncedLines' = <<>>
                /\ UNCHANGED activeLyricIdx

\* The player's onReady with data.title = title ('' when it has none), and
\* the fetch effect when videoTitle changed.
onReady(title) ==
  /\ UNCHANGED <<fetchVars, pureVars, sliderVars>>
  /\ isLoading
  /\ isReady' = TRUE
  /\ isLoading' = FALSE
  /\ UNCHANGED <<currentTime, activeLyricDuration, videosLoaded>>
  /\ IF title = <<>> \/ title = videoTitle
       THEN UNCHANGED <<videoTitle, lyrics, syncedLines, lyricsLoading,
                        lyricsError, activeLyricIdx, attempts>>
       ELSE
         /\ videoTitle' = title
         /\ IF cleanedTitle[title] = <<>>
              THEN \* if (!query) return
                /\ attempts' = EffectCleanup(attempts)
                /\ UNCHANGED <<lyrics, syncedLines, lyricsLoading, lyricsError,
                               activeLyricIdx>>
              ELSE
                /\ attempts' = Append(EffectCleanup(attempts),
                                      [title |-> title, cancelled |-> FALSE,
                                       state |-> "pending"])
                /\ lyricsLoading' = TRUE
                /\ lyricsError' = ""
                /\ lyrics' = Null
                /\ syncedLines' = <<>>
                /\ activeLyricIdx' = -1

\* The request of attempt n answers with a JSON array: the second .then.
fetchResolved(n, results) ==
  /\ UNCHANGED <<fetchVars, pureVars, sliderVars>>
  /\ n \in DOMAIN attempts
  /\ attempts[n].state = "pending"
  /\ attempts' = [attempts EXCEPT ![n].state =
                    IF attempts[n].cancelled THEN "discarded" ELSE "committed"]
  /\ UNCHANGED <<isLoading, isReady, currentTime, videoTitle, videosLoaded>>
  /\ IF attempts[n].cancelled
       THEN UNCHANGED <<lyrics, syncedLines, lyricsLoading, lyricsError,
                        activeLyricIdx, activeLyricDuration>>
       ELSE
         LET b == FindBest(results) IN
         /\ lyricsLoading' = FALSE
         /\ IF b = 0
              THEN /\ lyricsError' = NoLyricsFound
                   /\ UNCHANGED <<lyrics, syncedLines, activeLyricIdx,
                                  activeLyricDuration>>
              ELSE
                LET best == results[b]
                    run  == SyncActiveLine(parsedLrc[best.syncedLyrics],
                              currentTime, activeLyricIdx, activeLyricDuration)
                IN
                /\ lyrics' = IF Truthy(best.plainLyrics)
                               THEN best.plainLyrics ELSE Null
                /\ UNCHANGED lyricsError
                /\ IF Truthy(best.syncedLyrics)
                     THEN /\ syncedLines' = parsedLrc[best.syncedLyrics]
                          /\ activeLyricIdx' = run.idx
                          /\ activeLyricDuration' = run.dur
                     ELSE UNCHANGED <<syncedLines, activeLyricIdx,
                                      activeLyricDuration>>

\* The request of attempt n fails: the .catch.
fetchFailed(n, kind) ==
  /\ UNCHANGED <<fetchVars, pureVars, sliderVars>>
  /\ n \in DOMAIN attempts
  /\ attempts[n].state = "pending"
  /\ attempts' = [attempts EXCEPT ![n].state =
                    IF attempts[n].cancelled THEN "discarded" ELSE "committed"]
  /\ UNCHANGED <<isLoading, isReady, currentTime, videoTitle, videosLoaded,
                 lyrics, syncedLines, activeLyricIdx, activeLyricDuration>>
  /\ IF attempts[n].cancelled
       THEN UNCHANGED <<lyricsLoading, lyricsError>>
       ELSE /\ lyricsError' = FailedToFetch
            /\ lyricsLoading' = FALSE

\* The 500 ms progress interval (playing && isReady): setCurrentTime.
progressTick(t) ==
  /\ UNCHANGED <<fetchVars, pureVars, sliderVars>>
  /\ isReady
  /\ SetCurrentTime(t)
  /\ UNCHANGED <<isLoading, isReady, videoTitle, lyrics, syncedLines,
                 lyricsLoading, lyricsError, attempts, videosLoaded>>

\* handleSeek and the arrow keys: setCurrentTime(newTime).
handleSeek(t) ==
  /\ UNCHANGED <<fetchVars, pureVars, sliderVars>>
  /\ isReady
  /\ SetCurrentTime(t)
  /\ UNCHANGED <<isLoading, isReady, videoTitle, lyrics, syncedLines,
                 lyricsLoading, lyricsError, attempts, videosLoaded>>

(***************************************************************************)
(* fetchLyrics: inputs.                                                    *)
(***************************************************************************)

\* The most records all answers of one call hold together.
MaxPool == 3

\* Titles that issue three queries (artist and track; track only), two, one
\* and none.
FetchTitleSamples ==
  { <<"a"," ","-"," ","b"," ","(","x",")">>,
    <<"a"," ","-"," ","l","y","r","i","c"," ","v","i","d","e","o">>,
    <<"a","b"," ","(","x",")">>,
    <<"a","b">>,
    <<"(","h","d",")">> }

\* videoDuration: not passed, 0, negative, positive (200 s, and 216 s, one
\* second from the longest record).
NoDuration == <<>>
DurationSamples == {NoDuration, <<0>>, <<-200>>, <<200>>, <<216>>}

\* LRC texts of the records: one parseable line; a tag without text.
SyncedSample == JoinLines(<< <<"[","0","0",":","0","1",".","0","0","]","a">> >>)
UnparseableSample == JoinLines(<< <<"[","0","0",":","0","2",".","0","0","]">> >>)

\* Records of the endpoint: an id that repeats with other contents, an
\* instrumental, durations 3, 0, 4, 15 and 1 s away from 200; the last has
\* synced lyrics without a parseable line and no plain lyrics.
FetchRecords ==
  { LrcLibResult(1, FALSE, SyncedSample, PlainSample, 197),
    LrcLibResult(1, TRUE, SyncedSample, PlainSample, 200),
    LrcLibResult(2, FALSE, SyncedSample, PlainSample, 204),
    LrcLibResult(3, FALSE, Null, PlainSample, 215),
    LrcLibResult(4, FALSE, UnparseableSample, <<>>, 201) }

\* The JSON arrays one request may answer with.
FetchBodies == UNION { [1..n -> FetchRecords] : n \in 0..MaxPool }

\* How a request ends: an array with status 200, fetch rejects, a non-OK
\* status, a body that is not JSON, a JSON body that is not an array.
SearchFailures == {"network", "status", "json", "notArray"}

(***************************************************************************)
(* searchLrcLib and fetchLyrics.                                           *)
(***************************************************************************)

\* The strategies without `heavy !== light`: the heavy query is issued
\* whenever it is not empty.
StrategyQueriesRepeating(parsed, light, heavy) ==
  << [issued |-> Truthy(parsed.track),
      params |-> IF Truthy(parsed.artist)
                   THEN [artist_name |-> parsed.artist,
                         track_name |-> parsed.track]
                   ELSE [track_name |-> parsed.track]],
     [issued |-> light # <<>>, params |-> [q |-> light]],
     [issued |-> heavy # <<>>, params |-> [q |-> heavy]] >>

\* The queries of the three strategies for what the title parses and
\* cleans to: whether each is issued, and its params.
StrategyQueries(parsed, light, heavy) ==
  << [issued |-> Truthy(parsed.track),
      params |-> IF Truthy(parsed.artist)
                   THEN [artist_name |-> parsed.artist,
                         track_name |-> parsed.track]
                   ELSE [track_name |-> parsed.track]],
     [issued |-> light # <<>>, params |-> [q |-> light]],
     [issued |-> heavy # <<>> /\ heavy # light, params |-> [q |-> heavy]] >>

\* The strategies on the sample titles, computed once.
titleQueries ==
  [t \in FetchTitleSamples |->
     StrategyQueries(parseVideoTitle(t), lightClean(t), heavyClean(t))]

\* searchLrcLib without its try/catch: a rejected fetch and a body that is
\* not JSON reject the promise.
searchLrcLibUncaught(kind, body) ==
  IF kind = "ok" THEN [rejected |-> FALSE, value |-> body]
  ELSE [rejected |-> kind \in {"network", "json"}, value |-> <<>>]

\* searchLrcLib: the whole body is one try/catch that returns []; rejected
\* tells whether the promise rejects.
searchLrcLib(kind, body) ==
  IF kind = "ok" THEN [rejected |-> FALSE, value |-> body]
  ELSE [rejected |-> FALSE, value |-> <<>>]

\* The first strategy from k on that issues a query, 0 when none does.
NextStrategy(plan, k) ==
  LET js == {j \in k..3 : plan[j].issued}
  IN  IF js = {} THEN 0 ELSE Min(js)

\* No filter on the ids: every record of the pool stays.
KeepDuplicates(p) == p

\* const seen = new Set(); pool.filter(r => { if (seen.has(r.id)) return
\* false; seen.add(r.id); return true })
Deduplicate(p) ==
  LET F[n \in 0..Len(p)] ==
        IF n = 0 THEN [kept |-> <<>>, seen |-> {}]
        ELSE IF p[n].id \in F[n - 1].seen THEN F[n - 1]
        ELSE [kept |-> Append(F[n - 1].kept, p[n]),
              seen |-> F[n - 1].seen \cup {p[n].id}]
  IN  F[Len(p)].kept

\* No filter on instrumental: every candidate stays.
KeepInstrumentals(c) == c

\* candidates.filter(r => !r.instrumental)
RemoveInstrumentals(c) ==
  LET NotInstrumental(r) == ~r.instrumental
  IN  SelectSeq(c, NotInstrumental)

Abs(x) == IF x < 0 THEN -x ELSE x

\* The score with the duration windows closed at 4 and 15 seconds.
ScoreInclusive(r, videoDuration) ==
  LET synced == IF Truthy(r.syncedLyrics) THEN 10 ELSE 0
      diff   == Abs(r.duration - videoDuration[1])
      close  == IF videoDuration # NoDuration /\ videoDuration[1] > 0
                  THEN IF diff <= 4 THEN 5 ELSE IF diff <= 15 THEN 2 ELSE 0
                  ELSE 0
      plain  == IF Truthy(r.plainLyrics) THEN 1 ELSE 0
  IN  synced + close + plain

\* The score with 5 points for synced lyrics, as many as for a close
\* duration.
ScoreWeakSynced(r, videoDuration) ==
  LET synced == IF Truthy(r.syncedLyrics) THEN 5 ELSE 0
      diff   == Abs(r.duration - videoDuration[1])
      close  == IF videoDuration # NoDuration /\ videoDuration[1] # 0
                   /\ videoDuration[1] > 0
                  THEN IF diff < 4 THEN 5 ELSE IF diff < 15 THEN 2 ELSE 0
                  ELSE 0
      plain  == IF Truthy(r.plainLyrics) THEN 1 ELSE 0
  IN  synced + close + plain

\* The score of one candidate.
Score(r, videoDuration) ==
  LET synced == IF Truthy(r.syncedLyrics) THEN 10 ELSE 0
      diff   == Abs(r.duration - videoDuration[1])
      close  == IF videoDuration # NoDuration /\ videoDuration[1] # 0
                   /\ videoDuration[1] > 0
                  THEN IF diff < 4 THEN 5 ELSE IF diff < 15 THEN 2 ELSE 0
                  ELSE 0
      plain  == IF Truthy(r.plainLyrics) THEN 1 ELSE 0
  IN  synced + close + plain

\* A sort that is not stable: an entry goes ahead of the entries of its score.
SortUnstable(sc) ==
  LET Insert(sorted, x) ==
        LET ahead == {n \in 1..Len(sorted) : sorted[n].score > x.score}
            at    == IF ahead = {} THEN 0 ELSE Max(ahead)
        IN  SubSeq(sorted, 1, at) \o <<x>> \o SubSeq(sorted, at + 1, Len(sorted))
      F[n \in 0..Len(sc)] ==
        IF n = 0 THEN <<>> ELSE Insert(F[n - 1], sc[n])
  IN  F[Len(sc)]

\* scored.sort((a, b) => b.score - a.score): Array.prototype.sort is stable
\* (ES2019), so an entry goes behind every entry whose score is not smaller.
SortByScore(sc) ==
  LET Insert(sorted, x) ==
        LET ahead == {n \in 1..Len(sorted) : sorted[n].score >= x.score}
            at    == IF ahead = {} THEN 0 ELSE Max(ahead)
        IN  SubSeq(sorted, 1, at) \o <<x>> \o SubSeq(sorted, at + 1, Len(sorted))
      F[n \in 0..Len(sc)] ==
        IF n = 0 THEN <<>> ELSE Insert(F[n - 1], sc[n])
  IN  F[Len(sc)]

\* A selection that falls back across candidates: plain from the best
\* candidate that has plain lyrics, synced from the best that has synced.
SelectMixing(p, videoDuration) ==
  LET c  == RemoveInstrumentals(Deduplicate(p))
      sc == SortByScore([n \in 1..Len(c) |->
                           [result |-> c[n], score |-> Score(c[n], videoDuration)]])
      withPlain  == {n \in DOMAIN sc : Truthy(sc[n].result.plainLyrics)}
      withSynced == {n \in DOMAIN sc : Truthy(sc[n].result.syncedLyrics)}
  IN  [candidates |-> c,
       scored |-> IF c = <<>> THEN <<>> ELSE sc,
       result |->
         [plain  |-> IF withPlain = {} THEN Null
                     ELSE sc[Min(withPlain)].result.plainLyrics,
          synced |-> IF withSynced = {} THEN <<>>
                     ELSE parsedLrc[sc[Min(withSynced)].result.syncedLyrics]]]

\* The filtering and scoring of a pool: candidates, scored and the result.
Select(p, videoDuration) ==
  LET c  == RemoveInstrumentals(Deduplicate(p))
      sc == SortByScore([n \in 1..Len(c) |->
                           [result |-> c[n], score |-> Score(c[n], videoDuration)]])
      best == sc[1].result
  IN  IF p = <<>> THEN
        [candidates |-> <<>>, scored |-> <<>>,
         result |-> [plain |-> Null, synced |-> <<>>]]
      ELSE IF c = <<>> THEN
        [candidates |-> c, scored |-> <<>>,
         result |-> [plain |-> Null, synced |-> <<>>]]
      ELSE
        [candidates |-> c, scored |-> sc,
         result |->
           [plain  |-> IF Truthy(best.plainLyrics) THEN best.plainLyrics ELSE Null,
            synced |-> IF Truthy(best.syncedLyrics)
                         THEN parsedLrc[best.syncedLyrics] ELSE <<>>]]

\* fetchLyrics running on with pool p: to the await of strategy j, or,
\* when j = 0, through the filtering and scoring to the return.
RunOn(j, params, p, sel) ==
  /\ pool' = p
  /\ strategy' = j
  /\ IF j # 0
       THEN /\ pc' = "await"
            /\ queries' = Append(queries, params)
            /\ UNCHANGED <<candidates, scored, result>>
       ELSE /\ pc' = "returned"
            /\ candidates' = sel.candidates
            /\ scored' = sel.scored
            /\ result' = <<sel.result>>
            /\ UNCHANGED queries

\* A fetchLyrics that stops searching once the pool holds synced lyrics.
AdvanceUntilSynced(plan, k, p) ==
  LET found == \E n \in DOMAIN p :
                 ~p[n].instrumental /\ Truthy(p[n].syncedLyrics)
      j     == IF found THEN 0 ELSE NextStrategy(plan, k)
  IN  RunOn(j, plan[Max({1, j})].params, p, Select(p, callDuration))

\* fetchLyrics from strategy k on, under the plan of its title.
AdvancePlan(plan, k, p) ==
  RunOn(NextStrategy(plan, k),
        plan[Max({1, NextStrategy(plan, k)})].params, p, Select(p, callDuration))

Advance(k, p) == AdvancePlan(titleQueries[callTitle], k, p)

\* The call, up to its first await or its return.
fetchLyrics ==
  /\ pc = "called"
  /\ Advance(1, pool)
  /\ UNCHANGED <<callTitle, callDuration, outcomes>>
  /\ UNCHANGED <<appVars, pureVars, sliderVars>>

\* A searchLrcLib that retries: after a failure the same query is sent
\* again.
SearchSettlesRetrying(kind, body) ==
  /\ Len(pool) + Len(body) <= MaxPool
  /\ outcomes' = Append(outcomes, IF kind = "ok" THEN "ok" ELSE "failed")
  /\ UNCHANGED <<callTitle, callDuration>>
  /\ UNCHANGED <<appVars, pureVars, sliderVars>>
  /\ IF kind = "ok" THEN Advance(strategy + 1, pool \o body)
                    ELSE Advance(strategy, pool)

\* The awaited searchLrcLib settles, and fetchLyrics runs on.
SearchSettles(kind, body) ==
  LET r == searchLrcLib(kind, body)
  IN  /\ Len(pool) + Len(body) <= MaxPool
      /\ outcomes' = Append(outcomes, IF kind = "ok" THEN "ok" ELSE "failed")
      /\ UNCHANGED <<callTitle, callDuration>>
      /\ UNCHANGED <<appVars, pureVars, sliderVars>>
      /\ IF r.rejected
           THEN /\ pc' = "rejected"
                /\ UNCHANGED <<strategy, queries, pool, candidates, scored, result>>
           ELSE Advance(strategy + 1, pool \o r.value)

\* The request answers 200 with a JSON array.
searchAnswers(body) ==
  /\ pc = "await"
  /\ SearchSettles("ok", body)

\* The request fails; the body is whatever the server sent.
searchFails(kind, body) ==
  /\ pc = "await"
  /\ SearchSettles(kind, body)

(***************************************************************************)
(* Specifications.                                                         *)
(***************************************************************************)

vars == <<appVars, fetchVars, pureVars, sliderVars>>

\* No call of fetchLyrics: the App does not use the lyrics service.
FetchIdle ==
  /\ callTitle = <<>>
  /\ callDuration = NoDuration
  /\ pc = "idle"
  /\ strategy = 0
  /\ queries = <<>>
  /\ outcomes = <<>>
  /\ pool = <<>>
  /\ candidates = <<>>
  /\ scored = <<>>
  /\ result = <<>>

\* No call of the pure functions under way.
PureIdle ==
  /\ lrcInput = <<>>
  /\ lrcLines = <<>>
  /\ rawTitle = <<>>
  /\ titleGuess = <<>>
  /\ lightTitle = <<>>
  /\ heavyTitle = <<>>

\* The slider as it is mounted, before any event: useState(50) and
\* disabled={!videoId || !isReady} of the App, the initial values of the
\* component's state and refs.
SliderMounted ==
  /\ volume = 50
  /\ disabled = TRUE
  /\ onChangeCall = <<>>
  /\ dragging = FALSE
  /\ charging = FALSE
  /\ chargeLevel = 0
  /\ chargeRef = 0
  /\ intervals = {}
  /\ isShooting = FALSE
  /\ target = 0
  /\ elapsed = 0
  /\ shootRaf = FALSE
  /\ mounted = TRUE

\* The App component.
Init == AppInit /\ FetchIdle /\ PureIdle /\ SliderMounted

Next ==
  \/ handleUrlSubmit
  \/ \E title \in TitleSamples \cup {<<>>} : onReady(title)
  \/ \E n \in 1..MaxVideos, results \in AppBodies : fetchResolved(n, results)
  \/ \E n \in 1..MaxVideos, kind \in FailureKinds : fetchFailed(n, kind)
  \/ \E t \in TimeSamples : progressTick(t)
  \/ \E t \in TimeSamples : handleSeek(t)

Spec == Init /\ [][Next]_vars

\* The App when every issued request eventually completes.
SettleRequest ==
  \E n \in 1..MaxVideos :
    \/ \E results \in AppBodies : fetchResolved(n, results)
    \/ \E kind \in FailureKinds : fetchFailed(n, kind)

FairSpec == Spec /\ WF_vars(SettleRequest)

\* One call of fetchLyrics, for every sample title and duration.
FetchInit ==
  /\ AppInit
  /\ PureIdle
  /\ SliderMounted
  /\ callTitle \in FetchTitleSamples
  /\ callDuration \in DurationSamples
  /\ pc = "called"
  /\ strategy = 0
  /\ queries = <<>>
  /\ outcomes = <<>>
  /\ pool = <<>>
  /\ candidates = <<>>
  /\ scored = <<>>
  /\ result = <<>>

FetchNext ==
  \/ fetchLyrics
  \/ \E body \in FetchBodies : searchAnswers(body)
  \/ \E kind \in SearchFailures, body \in {<<>>} : searchFails(kind, body)

SpecFetch == FetchInit /\ [][FetchNext]_vars

(***************************************************************************)
(* parseSyncedLyrics called on its own.                                    *)
(***************************************************************************)

\* Physical lines of a raw LRC text: tagged lines (one with a CRLF ending
\* and spaces in its text, one past the first minute), tags without text,
\* tags of a wrong shape, a tag that is not at the start, a line without a
\* tag and an empty line.
LrcParseLines ==
  { <<"[","0","0",":","0","1",".","0","0","]","a">>,
    <<"[","0","0",":","0","5",".","0","0","]"," ","b"," ","c","\r">>,
    <<"[","0","1",":","0","2",".","0","3","]","d">>,
    <<"[","0","0",":","0","2",".","0","0","]">>,
    <<"[","0","0",":","0","2",".","0","0","]"," ","\r">>,
    <<"[","0",":","0","3",".","0","0","]","e">>,
    <<"[","0","0",":","0","3",".","0","]","e">>,
    <<"[","0","0",":","0","3",".","0","0","0","]","e">>,
    <<"x","[","0","0",":","0","4",".","0","0","]","e">>,
    <<"e">>,
    <<>> }

\* A call parseSyncedLyrics(raw), raw being the lines joined by "\n".
callParseSyncedLyrics ==
  /\ lrcInput # <<>>
  /\ lrcLines = <<>>
  /\ lrcLines' = <<parseSyncedLyrics(JoinLines(lrcInput))>>
  /\ UNCHANGED <<lrcInput, rawTitle, titleGuess, lightTitle, heavyTitle>>
  /\ UNCHANGED <<appVars, fetchVars, sliderVars>>

LrcInit ==
  /\ AppInit
  /\ FetchIdle
  /\ SliderMounted
  /\ lrcInput \in UNION {[1..n -> LrcParseLines] : n \in 1..MaxLrcLines}
  /\ lrcLines = <<>>
  /\ rawTitle = <<>>
  /\ titleGuess = <<>>
  /\ lightTitle = <<>>
  /\ heavyTitle = <<>>

LrcNext == callParseSyncedLyrics

SpecLrc == LrcInit /\ [][LrcNext]_vars

(***************************************************************************)
(* parseVideoTitle, lightClean and heavyClean called on their own.         *)
(***************************************************************************)

MaxTitleTokens == 3

\* Pieces of a video title: names followed by a separator, junk labels, a
\* letter that is a name or turns a label into a word, a pipe, an open noise
\* bracket, its closing with text behind it, and a line break.
TitleTokens ==
  { <<"a", " ", "-", " ">>,
    <<"b", " ", ":", " ">>,
    <<"L","y","r","i","c"," ","V","i","d","e","o">>,
    <<"a","u","d","i","o">>,
    <<"s">>,
    <<"|">>,
    <<"(", "h", "d">>,
    <<")", "b">>,
    <<"\n">> }

\* The titles: one to MaxTitleTokens pieces, one behind the other.
PureTitles ==
  LET Concat(ts) ==
        LET F[n \in 0..Len(ts)] == IF n = 0 THEN <<>> ELSE F[n - 1] \o ts[n]
        IN  F[Len(ts)]
  IN  {Concat(ts) : ts \in UNION {[1..n -> TitleTokens] : n \in 1..MaxTitleTokens}}

\* A call parseVideoTitle(title).
callParseVideoTitle ==
  /\ rawTitle # <<>>
  /\ titleGuess = <<>>
  /\ titleGuess' = <<parseVideoTitle(rawTitle[1])>>
  /\ UNCHANGED <<lrcInput, lrcLines, rawTitle, lightTitle, heavyTitle>>
  /\ UNCHANGED <<appVars, fetchVars, sliderVars>>

\* A call lightClean(title).
callLightClean ==
  /\ rawTitle # <<>>
  /\ lightTitle = <<>>
  /\ lightTitle' = <<lightClean(rawTitle[1])>>
  /\ UNCHANGED <<lrcInput, lrcLines, rawTitle, titleGuess, heavyTitle>>
  /\ UNCHANGED <<appVars, fetchVars, sliderVars>>

\* A call heavyClean(title).
callHeavyClean ==
  /\ rawTitle # <<>>
  /\ heavyTitle = <<>>
  /\ heavyTitle' = <<heavyClean(rawTitle[1])>>
  /\ UNCHANGED <<lrcInput, lrcLines, rawTitle, titleGuess, lightTitle>>
  /\ UNCHANGED <<appVars, fetchVars, sliderVars>>

TitleInit ==
  /\ AppInit
  /\ FetchIdle
  /\ SliderMounted
  /\ lrcInput = <<>>
  /\ lrcLines = <<>>
  /\ rawTitle \in {<<t>> : t \in PureTitles}
  /\ titleGuess = <<>>
  /\ lightTitle = <<>>
  /\ heavyTitle = <<>>

TitleNext == callParseVideoTitle \/ callLightClean \/ callHeavyClean

SpecTitle == TitleInit /\ [][TitleNext]_vars

(***************************************************************************)
(* The two resolutions of lyrics side by side: the App with its fetch      *)
(* effect, or one call of fetchLyrics.                                     *)
(***************************************************************************)

\* A step of the App; no call of fetchLyrics is under way in the App.
AppStep ==
  /\ pc = "idle"
  /\ Next

LyricsInit == Init \/ FetchInit

LyricsNext == AppStep \/ FetchNext

SpecLyrics == LyricsInit /\ [][LyricsNext]_vars

(***************************************************************************)
(* The ElasticVolumeSlider component: handlers, the charge interval, the   *)
(* flight of the cannonball.  Positions are in px, times in ms.            *)
(***************************************************************************)

PADDING == 8
SHOOT_DURATION_MS == 600
FullCharge == 100

\* At most this many intervals run at a time.
MaxIntervals == 2

\* trackRef.current.getBoundingClientRect(): <<>> while the ref is null,
\* else the rect of a track of 200 px behind its padding.
TrackRects == {<<>>, <<[left |-> 92, width |-> 216]>>}

\* e.clientX: left of the track, inside it and right of it.
ClientXs == {40, 174, 350}

\* Levels of the charge at which the pointer lets go of the cannon.
ReleaseLevels == {0, 1, 50, 100}

\* Time from one animation frame to the next.
FrameGaps == {300, 600}

\* function clamp(v, min, max)
clamp(v, min, max) == Min({max, Max({min, v})})

\* Math.round(num / den) for den > 0: the nearest integer, a half goes up.
MathRound(num, den) == (2 * num + den) \div (2 * den)

getTrackBounds(rect) ==
  IF rect = <<>> THEN [left |-> 0, width |-> 1]
  ELSE [left |-> rect[1].left + PADDING,
        width |-> rect[1].width - PADDING * 2]

pointerToVolume(clientX, rect) ==
  LET bounds == getTrackBounds(rect)
  IN  clamp(MathRound((clientX - bounds.left) * 100, bounds.width), 0, 100)

\* An updater without the stop at the full charge.
ChargeStepUncapped(prev) == prev + 1

\* setChargeLevel's updater in the interval callback.
ChargeStep(prev) == IF prev >= FullCharge THEN FullCharge ELSE prev + 1

cannonVars == <<charging, chargeLevel, chargeRef, intervals>>
flightVars == <<isShooting, target, elapsed, shootRaf>>

\* onChange(v), the App's handleVolumeChange: setVolume(v).
handleVolumeChange(from, v) ==
  /\ volume' = v
  /\ onChangeCall' = <<[from |-> from, value |-> v]>>

\* pointerdown on the track.
onPointerDown(clientX, rect) ==
  /\ mounted
  /\ ~(disabled \/ isShooting)
  /\ dragging' = TRUE
  /\ handleVolumeChange("onPointerDown", pointerToVolume(clientX, rect))
  /\ UNCHANGED <<disabled, cannonVars, flightVars, mounted>>
  /\ UNCHANGED <<appVars, fetchVars, pureVars>>

\* pointermove on the track; it returns at once unless dragging.current.
onPointerMove(clientX, rect) ==
  /\ mounted
  /\ dragging
  /\ handleVolumeChange("onPointerMove", pointerToVolume(clientX, rect))
  /\ UNCHANGED <<disabled, dragging, cannonVars, flightVars, mounted>>
  /\ UNCHANGED <<appVars, fetchVars, pureVars>>

\* pointerup on the track; it returns at once unless dragging.current (the
\* window's listener runs after it and finds nothing to do).
onPointerUp ==
  /\ mounted
  /\ dragging
  /\ dragging' = FALSE
  /\ UNCHANGED <<volume, disabled, onChangeCall, cannonVars, flightVars,
                 mounted>>
  /\ UNCHANGED <<appVars, fetchVars, pureVars>>

\* click on the track.
onTrackClick(clientX, rect) ==
  /\ mounted
  /\ ~(disabled \/ dragging \/ isShooting)
  /\ handleVolumeChange("onTrackClick", pointerToVolume(clientX, rect))
  /\ UNCHANGED <<disabled, dragging, cannonVars, flightVars, mounted>>
  /\ UNCHANGED <<appVars, fetchVars, pureVars>>

\* The window's pointerup listener, for a pointer that goes up outside the
\* track and the cannon.
handleUp ==
  /\ mounted
  /\ dragging
  /\ dragging' = FALSE
  /\ UNCHANGED <<volume, disabled, onChangeCall, cannonVars, flightVars,
                 mounted>>
  /\ UNCHANGED <<appVars, fetchVars, pureVars>>

\* pointerdown on the cannon button.
handleChargeStart ==
  /\ mounted
  /\ ~(disabled \/ isShooting)
  /\ Cardinality(intervals) < MaxIntervals
  /\ charging' = TRUE
  /\ chargeLevel' = 0
  /\ LET id == Min((1..MaxIntervals) \ intervals)
     IN  /\ chargeRef' = id
         /\ intervals' = intervals \cup {id}
  /\ UNCHANGED <<volume, disabled, onChangeCall, dragging, flightVars,
                 mounted>>
  /\ UNCHANGED <<appVars, fetchVars, pureVars>>

\* The callback of interval id; on an unmounted component the update does
\* nothing.
chargeTick(id) ==
  /\ mounted
  /\ id \in intervals
  /\ chargeLevel' = ChargeStep(chargeLevel)
  /\ UNCHANGED <<volume, disabled, onChangeCall, dragging, charging,
                 chargeRef, intervals, flightVars, mounted>>
  /\ UNCHANGED <<appVars, fetchVars, pureVars>>

\* A release without `if (target === 0) return`: it shoots at any level.
handleChargeEndAtAnyLevel ==
  /\ mounted
  /\ charging
  /\ chargeLevel \in ReleaseLevels
  /\ intervals' = intervals \ {chargeRef}
  /\ chargeRef' = 0
  /\ charging' = FALSE
  /\ isShooting' = TRUE
  /\ target' = chargeLevel
  /\ elapsed' = 0
  /\ shootRaf' = TRUE
  /\ UNCHANGED <<volume, disabled, onChangeCall, chargeLevel, mounted>>
  /\ UNCHANGED <<appVars, fetchVars, pureVars>>

\* handleChargeEnd up to the first requestAnimationFrame; it returns at
\* once unless charging.  It leaves dragging.current alone.
handleChargeEnd ==
  /\ mounted
  /\ charging
  /\ chargeLevel \in ReleaseLevels
  /\ intervals' = intervals \ {chargeRef}
  /\ chargeRef' = 0
  /\ charging' = FALSE
  /\ IF chargeLevel = 0
       THEN UNCHANGED flightVars
       ELSE /\ isShooting' = TRUE
            /\ target' = chargeLevel
            /\ elapsed' = 0
            /\ shootRaf' = TRUE
  /\ UNCHANGED <<volume, disabled, onChangeCall, chargeLevel, mounted>>
  /\ UNCHANGED <<appVars, fetchVars, pureVars>>

\* pointerup on the cannon button: handleChargeEnd, then the event reaches
\* the window and its listener ends a drag.
onCannonPointerUp ==
  /\ handleChargeEnd
  /\ dragging' = FALSE

\* pointerleave on the cannon button: handleChargeEnd alone.
onCannonPointerLeave ==
  /\ handleChargeEnd
  /\ UNCHANGED dragging

\* animateFlight(now), now being gap ms after the last frame.
animateFlight(gap) ==
  /\ mounted
  /\ shootRaf
  /\ LET now == elapsed + gap
     IN  IF now < SHOOT_DURATION_MS
           THEN /\ elapsed' = now
                /\ UNCHANGED <<volume, onChangeCall, isShooting, target,
                               shootRaf>>
           ELSE /\ handleVolumeChange("animateFlight", target)
                /\ isShooting' = FALSE
                /\ shootRaf' = FALSE
                /\ target' = 0
                /\ elapsed' = 0
  /\ UNCHANGED <<disabled, dragging, cannonVars, mounted>>
  /\ UNCHANGED <<appVars, fetchVars, pureVars>>

\* The App renders the slider with another value of disabled.
renderDisabled(d) ==
  /\ mounted
  /\ d # disabled
  /\ disabled' = d
  /\ UNCHANGED <<volume, onChangeCall, dragging, cannonVars, flightVars,
                 mounted>>
  /\ UNCHANGED <<appVars, fetchVars, pureVars>>

\* The cleanup on unmount: clearInterval(chargeRef.current),
\* cancelAnimationFrame(shootRaf.current).
unmount ==
  /\ mounted
  /\ mounted' = FALSE
  /\ intervals' = intervals \ {chargeRef}
  /\ shootRaf' = FALSE
  /\ UNCHANGED <<volume, disabled, onChangeCall, dragging, charging,
                 chargeLevel, chargeRef, isShooting, target, elapsed>>
  /\ UNCHANGED <<appVars, fetchVars, pureVars>>

SliderInit == AppInit /\ FetchIdle /\ PureIdle /\ SliderMounted

SliderNext ==
  \/ \E clientX \in ClientXs, rect \in TrackRects : onPointerDown(clientX, rect)
  \/ \E clientX \in ClientXs, rect \in TrackRects : onPointerMove(clientX, rect)
  \/ onPointerUp
  \/ \E clientX \in ClientXs, rect \in TrackRects : onTrackClick(clientX, rect)
  \/ handleUp
  \/ handleChargeStart
  \/ \E id \in 1..MaxIntervals : chargeTick(id)
  \/ onCannonPointerUp
  \/ onCannonPointerLeave
  \/ \E gap \in FrameGaps : animateFlight(gap)
  \/ \E d \in BOOLEAN : renderDisabled(d)
  \/ unmount

SpecSlider == SliderInit /\ [][SliderNext]_vars

\* The slider when a requested animation frame eventually comes: the
\* browser runs the callback of requestAnimationFrame unless it is cancelled.
NextFrame == \E gap \in FrameGaps : animateFlight(gap)

FairSpecSlider == SpecSlider /\ WF_vars(NextFrame)

(***************************************************************************)
(* The fetch effect: stale responses and the loading lifecycle.            *)
(***************************************************************************)

\* The request of attempt n completes in this step.
Completes(n) ==
  /\ attempts[n].state = "pending"
  /\ attempts'[n].state # "pending"

\* Attempt n is not the latest one, or videoTitle moved on since it started.
Stale(n) == n # Len(attempts) \/ attempts[n].title # videoTitle

\* C1: when the request of an attempt completes (with records, with none or
\* with a failure) after a newer title arrived, the step writes none of
\* lyrics, syncedLines, lyricsError and lyricsLoading; only the attempt
\* started last, for the current title, commits.
StaleResponseGuard ==
  [][\A n \in DOMAIN attempts :
       (Completes(n) /\ Stale(n)) => UNCHANGED lyricsState]_vars

\* A request that was overtaken by a newer title has completed, next to an
\* attempt for the newer title.
StaleResponseDiscarded ==
  \E n \in DOMAIN attempts :
    /\ attempts[n].state = "discarded"
    /\ n < Len(attempts)
    /\ attempts[n].title # videoTitle

\* C2: whenever lyricsLoading is true it eventually becomes false, given
\* that every issued request eventually completes.
LoadingEnds == lyricsLoading ~> ~lyricsLoading

\* The request in flight was overtaken by a title whose cleaned query is
\* empty, and has completed: nothing is pending, the state still loads.
LoadingStuck ==
  /\ lyricsLoading
  /\ cleanedTitle[videoTitle] = <<>>
  /\ \A n \in DOMAIN attempts : attempts[n].state # "pending"

(***************************************************************************)
(* fetchLyrics: the pool, the candidates, the scores and the selection.    *)
(***************************************************************************)

\* The place in the pool of the first record with this id.
PoolPosition(id) == Min({n \in DOMAIN pool : pool[n].id = id})

\* The places of the records that are first of their id and not instrumental.
Eligible ==
  {n \in DOMAIN pool : n = PoolPosition(pool[n].id) /\ ~pool[n].instrumental}

\* C3: the candidates that are scored hold each id at most once, and the
\* record kept for an id is the first record of that id in the pool.
DeduplicatedById ==
  pc = "returned" =>
    /\ \A i, j \in DOMAIN candidates :
         candidates[i].id = candidates[j].id => i = j
    /\ \A i \in DOMAIN candidates :
         candidates[i] = pool[PoolPosition(candidates[i].id)]
    /\ \A n \in Eligible : \E i \in DOMAIN candidates : candidates[i] = pool[n]

\* Two different records of one id were pooled, and the first was kept.
DuplicateDropped ==
  /\ pc = "returned"
  /\ \E m, n \in DOMAIN pool :
       /\ m < n
       /\ pool[m].id = pool[n].id
       /\ pool[m] # pool[n]
       /\ \E i \in DOMAIN candidates : candidates[i] = pool[m]

NoLyrics == [plain |-> Null, synced |-> <<>>]

\* C4: no candidate and no selected record is instrumental, and a pool that
\* is empty or all instrumental returns {plain: null, synced: []}.
InstrumentalExcluded ==
  pc = "returned" =>
    /\ \A i \in DOMAIN candidates : ~candidates[i].instrumental
    /\ \A i \in DOMAIN scored : ~scored[i].result.instrumental
    /\ (\A n \in DOMAIN pool : pool[n].instrumental) => result = <<NoLyrics>>

\* An instrumental record with both lyrics and the video's duration was
\* pooled ahead of the record that was selected.
InstrumentalPassedOver ==
  /\ pc = "returned"
  /\ callDuration = <<200>>
  /\ scored # <<>>
  /\ \E n \in DOMAIN pool :
       /\ pool[n].instrumental
       /\ pool[n].duration = 200
       /\ n < PoolPosition(scored[1].result.id)

\* A non-empty string: neither null nor ''.
NonEmpty(x) == x # Null /\ x # <<>>

\* The points for the duration d of the video, in seconds.
DurationPoints(r, d) ==
  IF d = NoDuration THEN 0
  ELSE IF d[1] <= 0 THEN 0
  ELSE IF r.duration - d[1] \in -3..3 THEN 5
  ELSE IF r.duration - d[1] \in -14..14 THEN 2
  ELSE 0

ExpectedScore(r, d) ==
  (IF NonEmpty(r.syncedLyrics) THEN 10 ELSE 0) + DurationPoints(r, d)
    + (IF NonEmpty(r.plainLyrics) THEN 1 ELSE 0)

\* C5: every candidate is scored 10 for synced lyrics, plus 5 or 2 for a
\* duration less than 4 or 15 seconds off a positive videoDuration, plus 1
\* for plain lyrics; every score lies in 0..16.
ScoredByFormula ==
  (pc = "returned" /\ candidates # <<>>) =>
    /\ Len(scored) = Len(candidates)
    /\ {scored[i].result : i \in DOMAIN scored} = Range(candidates)
    /\ \A i \in DOMAIN scored :
         /\ scored[i].score = ExpectedScore(scored[i].result, callDuration)
         /\ scored[i].score \in 0..16

\* A candidate exactly 4 seconds off the video's duration got the 2 points,
\* and a candidate got all 16.
ScoredAtWindowEdge ==
  /\ pc = "returned"
  /\ callDuration = <<200>>
  /\ \E i, j \in DOMAIN scored :
       /\ scored[i].result.duration = 204
       /\ scored[i].score = 13
       /\ scored[j].score = 16

\* C6: the selected record has the highest score among the records that are
\* first of their id and not instrumental, and is the first in pool order
\* among those with that score.
SelectsFirstBest ==
  (pc = "returned" /\ Eligible # {}) =>
    LET top   == Max({ExpectedScore(pool[n], callDuration) : n \in Eligible})
        first == Min({n \in Eligible :
                       ExpectedScore(pool[n], callDuration) = top})
    IN  /\ scored # <<>>
        /\ scored[1].result = pool[first]
        /\ scored[1].score = top
        /\ result = << [plain  |-> IF NonEmpty(pool[first].plainLyrics)
                                     THEN pool[first].plainLyrics ELSE Null,
                        synced |-> IF NonEmpty(pool[first].syncedLyrics)
                                     THEN parsedLrc[pool[first].syncedLyrics]
                                     ELSE <<>>] >>

\* Two records of different ids tie at the highest score, behind a record
\* of a lower score; the earlier of the two was selected.
TieBrokenByPoolOrder ==
  /\ pc = "returned"
  /\ \E l, m, n \in Eligible :
       /\ l < m /\ m < n
       /\ ExpectedScore(pool[l], callDuration)
            < ExpectedScore(pool[m], callDuration)
       /\ ExpectedScore(pool[m], callDuration)
            = ExpectedScore(pool[n], callDuration)
       /\ scored[1].result = pool[m]

\* The strategies after strategy k that issue a query for the call's title.
LaterQueries(k) == {j \in (k + 1)..3 : titleQueries[callTitle][j].issued}

\* C7: a query that fails adds nothing to the pool, the call never rejects,
\* and it goes on to the next query it would issue, or to its return.
FailedQueryIsolated ==
  [][(pc = "await" /\ outcomes' = Append(outcomes, "failed")) =>
       /\ pool' = pool
       /\ pc' # "rejected"
       /\ IF LaterQueries(strategy) = {}
            THEN pc' = "returned"
            ELSE /\ pc' = "await"
                 /\ strategy' = Min(LaterQueries(strategy))
                 /\ Len(queries') = Len(queries) + 1]_vars

\* The first query failed, a later one answered, and its records were
\* scored.
FailureThenAnswer ==
  /\ pc = "returned"
  /\ Len(outcomes) >= 2
  /\ outcomes[1] = "failed"
  /\ \E k \in 2..Len(outcomes) : outcomes[k] = "ok"
  /\ scored # <<>>

(***************************************************************************)
(* The timeline tracker: activeLyricIdx and activeLyricDuration.           *)
(***************************************************************************)

\* The 0-based index of the last line whose time is not after t, -1 when
\* there is none.
LastNotAfter(lines, t) ==
  LET reached == {i \in 1..Len(lines) : lines[i].time <= t}
  IN  IF reached = {} THEN -1 ELSE Max(reached) - 1

\* C8: the active index is the highest index whose line's time is at most
\* currentTime, and -1 when there is no such line; the times of the track
\* need not ascend.
ActiveIndexIsLast == activeLyricIdx = LastNotAfter(syncedLines, currentTime)

\* A track whose times do not ascend: a line ahead of the active line is
\* still after currentTime.
ActiveBehindLaterLine ==
  /\ activeLyricIdx >= 1
  /\ \E i \in 1..activeLyricIdx : syncedLines[i].time > currentTime

\* max(0.5, next - time) of the line at 0-based index idx, in hundredths of
\* a second, where next is the time of the line behind it or its time + 4.
ExpectedDuration(lines, idx) ==
  LET start == lines[idx + 1].time
      next  == IF idx + 2 \in DOMAIN lines THEN lines[idx + 2].time
               ELSE start + 400
  IN  IF next - start < 50 THEN 50 ELSE next - start

\* C9: while a line is active, lineDuration is max(0.5, next - time); it is
\* at least 0.5 s, and 4 s for the final line.
LineDurationIsFloored ==
  activeLyricIdx >= 0 =>
    /\ activeLyricDuration = ExpectedDuration(syncedLines, activeLyricIdx)
    /\ activeLyricDuration >= 50
    /\ activeLyricIdx + 1 = Len(syncedLines) => activeLyricDuration = 400

\* The line behind the active line starts less than 0.5 s after it, or
\* before it.
LineDurationAtFloor ==
  /\ activeLyricIdx >= 0
  /\ activeLyricIdx + 2 \in DOMAIN syncedLines
  /\ syncedLines[activeLyricIdx + 2].time
       < syncedLines[activeLyricIdx + 1].time + 50
  /\ activeLyricDuration = 50

\* C10, as stated: (activeLyricIdx, activeLyricDuration) depends only on
\* (syncedLines, currentTime); so every state with the pair of the initial
\* state, no lines at time 0, exposes what the initial state exposes.
ActiveLineOfPairOnly ==
  (syncedLines = <<>> /\ currentTime = 0) =>
    (activeLyricIdx = -1 /\ activeLyricDuration = 300)

\* C10, amended: after every step the index is the one of the pair
\* (syncedLines, currentTime), and the duration is the one of the pair
\* while a line is active; while none is, the duration is the one the
\* state held before the step.
ActiveLineOfPairWhileActive ==
  [][/\ activeLyricIdx' = LastNotAfter(syncedLines', currentTime')
     /\ activeLyricDuration' =
          IF activeLyricIdx' >= 0
            THEN ExpectedDuration(syncedLines', activeLyricIdx')
            ELSE activeLyricDuration]_vars

\* No line is active on a track with lines, and the duration is the one of
\* a line that was active before.
DurationOutlivesLine ==
  /\ activeLyricIdx = -1
  /\ syncedLines # <<>>
  /\ activeLyricDuration # 300

(***************************************************************************)
(* parseSyncedLyrics: which lines it returns, and in which order.          *)
(***************************************************************************)

\* The line starts with [MM:SS.ss]: digits at the places of M and S, the
\* punctuation at the others.
StartsWithTag(line) ==
  /\ Len(line) >= 10
  /\ \A k \in 1..10 :
       IF k \in {2, 3, 5, 6, 8, 9} THEN line[k] \in Range(Digits)
       ELSE line[k] = <<"[", "", "", ":", "", "", ".", "", "", "]">>[k]

\* The text behind the tag, trimmed.
TextBehindTag(line) == Trim(SubSeq(line, 11, Len(line)))

\* The number that two digit characters write.
TwoDigits(a, b) ==
  CHOOSE v \in 0..99 : Digits[(v \div 10) + 1] = a /\ Digits[(v % 10) + 1] = b

\* minutes * 60 + seconds of the tag, in hundredths of a second.
TagTime(line) ==
  TwoDigits(line[2], line[3]) * 6000 + TwoDigits(line[5], line[6]) * 100
    + TwoDigits(line[8], line[9])

\* A line that contributes an entry.
Contributes(line) == StartsWithTag(line) /\ TextBehindTag(line) # <<>>

\* One entry per contributing line, in the order of the lines.
ExpectedLines(physical) ==
  LET kept == SelectSeq(physical, Contributes)
  IN  [n \in 1..Len(kept) |->
         [time |-> TagTime(kept[n]), text |-> TextBehindTag(kept[n])]]

\* C11: parseSyncedLyrics returns, in the order of the physical lines, one
\* entry {minutes*60 + seconds, trimmed text} for each line that starts
\* with a tag [MM:SS.ss] and has text behind it, and nothing for the other
\* lines; no entry has an empty text.
ParsesTaggedLines ==
  lrcLines # <<>> =>
    /\ lrcLines[1] = ExpectedLines(lrcInput)
    /\ \A n \in DOMAIN lrcLines[1] : lrcLines[1][n].text # <<>>

\* A tagged line with text was parsed next to a line that contributes
\* nothing.
TaggedLineAmongOthers ==
  /\ lrcLines # <<>>
  /\ Len(lrcLines[1]) = 1
  /\ Len(lrcInput) >= 2
  /\ \E k \in DOMAIN lrcInput :
       StartsWithTag(lrcInput[k]) /\ TextBehindTag(lrcInput[k]) = <<>>

\* Times that never decrease along the lines.
Ascending(ls) == \A i, j \in DOMAIN ls : i < j => ls[i].time <= ls[j].time

\* C12, as stated: every track that parseSyncedLyrics returns is sorted by
\* time ascending.
ParsedTrackAscending == lrcLines # <<>> => Ascending(lrcLines[1])

\* C12, amended: the parser keeps the order of the input, so the returned
\* track ascends exactly when the tags of the contributing lines do.
ParsedTrackInInputOrder ==
  lrcLines # <<>> =>
    /\ [n \in DOMAIN lrcLines[1] |-> lrcLines[1][n].time]
         = [n \in DOMAIN ExpectedLines(lrcInput) |->
              ExpectedLines(lrcInput)[n].time]
    /\ Ascending(lrcLines[1]) <=> Ascending(ExpectedLines(lrcInput))

\* A later tag ahead of an earlier one was returned in that order.
ParsedTrackDescends ==
  /\ lrcLines # <<>>
  /\ \E n \in DOMAIN lrcLines[1] :
       n > 1 /\ lrcLines[1][n].time < lrcLines[1][n - 1].time

(***************************************************************************)
(* lightClean and heavyClean: what follows the first pipe.                 *)
(***************************************************************************)

HasPipe(title) == \E k \in DOMAIN title : title[k] = "|"

\* The text before the first pipe.
BeforePipe(title) ==
  SubSeq(title, 1, Min({k \in DOMAIN title : title[k] = "|"}) - 1)

\* C13, as stated: for a title with a pipe, lightClean and heavyClean give
\* what they give for the text before the first pipe, so nothing behind
\* the pipe reaches the output.
PipeTruncates ==
  (rawTitle # <<>> /\ HasPipe(rawTitle[1])) =>
    /\ lightTitle # <<>> =>
         lightTitle[1] = lightClean(BeforePipe(rawTitle[1]))
    /\ heavyTitle # <<>> =>
         heavyTitle[1] = heavyClean(BeforePipe(rawTitle[1]))

\* The title "(hd|)b" was cleaned to "b" by both functions: the letter
\* stands behind the pipe.
TextBehindPipeSurvives ==
  /\ rawTitle = << <<"(", "h", "d", "|", ")", "b">> >>
  /\ lightTitle = << <<"b">> >>
  /\ heavyTitle = << <<"b">> >>

(***************************************************************************)
(* parseVideoTitle: a second part that is a label.                         *)
(***************************************************************************)

LowerAll(p) == [k \in DOMAIN p |-> Lower(p[k])]

\* p is one of the first words, blanks, and nothing or one of the second
\* words, whatever the case of the letters.
IsLabel(p) ==
  \E w1 \in { <<"l","y","r","i","c">>, <<"o","f","f","i","c","i","a","l">>,
              <<"f","u","l","l">>, <<"a","u","d","i","o">>,
              <<"v","i","d","e","o">>, <<"m","u","s","i","c">> } :
    \E w2 \in { <<>>, <<"v","i","d","e","o">>, <<"a","u","d","i","o">>,
                <<"s","o","n","g">>, <<"m","v">> } :
      /\ Len(p) >= Len(w1) + Len(w2)
      /\ SubSeq(LowerAll(p), 1, Len(w1)) = w1
      /\ SubSeq(LowerAll(p), Len(p) - Len(w2) + 1, Len(p)) = w2
      /\ \A k \in (Len(w1) + 1)..(Len(p) - Len(w2)) : IsSpace(p[k])

\* The parts parseVideoTitle splits the title into, <<>> when it does not
\* split.
PartsOfTitle ==
  SplitOnSeparator(Trim(RemovePipe(
    RemoveNoiseBrackets(rawTitle[1], NoiseWordsFrom))))

\* C14: when parseVideoTitle splits the title, a second part that is a
\* label gives {artist: null, track: first part}, every other second part
\* gives {artist: first part, track: second part}.
JunkSecondPart ==
  titleGuess # <<>> =>
    LET parts == PartsOfTitle
    IN  parts # <<>> =>
          titleGuess[1] =
            IF IsLabel(parts[2]) THEN [artist |-> Null, track |-> parts[1]]
            ELSE [artist |-> parts[1], track |-> parts[2]]

\* "a - audios" was parsed: the second part begins like a label and is
\* kept as the track.
LabelPrefixIsTrack ==
  /\ rawTitle = << <<"a", " ", "-", " ", "a", "u", "d", "i", "o", "s">> >>
  /\ titleGuess = << [artist |-> <<"a">>,
                      track |-> <<"a", "u", "d", "i", "o", "s">>] >>

(***************************************************************************)
(* No usable candidate: the outcome of fetchLyrics and of the fetch effect. *)
(***************************************************************************)

\* No record, or instrumental records only.
NoUsableCandidate(records) == \A n \in DOMAIN records : records[n].instrumental

\* The answers to the App's request without usable candidate.
UnusableBodies == {b \in AppBodies : NoUsableCandidate(b)}

\* fetchLyrics does not reject, and returns {plain: null, synced: []} for
\* a pool without usable candidate.
ResolverReportsNoLyrics ==
  /\ pc # "rejected"
  /\ (pc = "returned" /\ NoUsableCandidate(pool)) => result = <<NoLyrics>>

\* A live request of the App that answers without usable candidate leaves
\* "no lyrics found": not loading, an error text, no lyrics, no lines.
EffectReportsNoLyrics ==
  \A n \in DOMAIN attempts :
    (attempts[n].state = "pending" /\ ~attempts[n].cancelled
       /\ attempts'[n].state = "committed") =>
      \A results \in UnusableBodies :
        fetchResolved(n, results) =>
          /\ lyricsLoading' = FALSE
          /\ lyricsError' # ""
          /\ lyrics' = Null
          /\ syncedLines' = <<>>

\* C15: a completed, non-stale resolution without usable candidate (no
\* record at all, or instrumental records only) ends in "no lyrics found"
\* and not in an exception: fetchLyrics returns {plain: null, synced: []}
\* without rejecting, and the App ends with lyricsLoading = false, a
\* non-empty lyricsError, lyrics = null and no synced lines.
NoLyricsOutcome ==
  /\ []ResolverReportsNoLyrics
  /\ [][EffectReportsNoLyrics]_vars

\* The request of the second video answered, and the App shows "no lyrics
\* found".
NoLyricsShown ==
  /\ Len(attempts) = 2
  /\ attempts[2].state = "committed"
  /\ lyricsError = NoLyricsFound
  /\ ~lyricsLoading
  /\ lyrics = Null
  /\ syncedLines = <<>>

(***************************************************************************)
(* A new video: what becomes of the lyrics of the previous one.            *)
(***************************************************************************)

\* C16, as stated: when a video after the first has been loaded and reports
\* its title, whatever the title, the lyrics and the synced lines of the
\* previous video are gone: the App holds no lyrics and no lines then.
DiscardedOnNewVideo ==
  [][\A title \in TitleSamples :
       (videosLoaded >= 2 /\ onReady(title)) =>
         (lyrics' = Null /\ syncedLines' = <<>>)]_vars

\* The second video reported the title "Lyrics", whose cleaned query is
\* empty, and the App still holds the lyrics and the lines that the first
\* video's request brought.
PreviousLyricsKept ==
  /\ isReady
  /\ videosLoaded = 2
  /\ videoTitle = <<"L", "y", "r", "i", "c", "s">>
  /\ lyrics # Null
  /\ syncedLines # <<>>

(***************************************************************************)
(* fetchLyrics: the queries of one call.                                   *)
(***************************************************************************)

\* The queries the statement lists for a title, in the order of the
\* strategies.
QueriesFor(title) ==
  LET guess == parseVideoTitle(title)
      light == lightClean(title)
      heavy == heavyClean(title)
  IN  (IF guess.artist # Null /\ guess.track # Null
         THEN << [artist_name |-> guess.artist, track_name |-> guess.track] >>
         ELSE IF guess.track # Null THEN << [track_name |-> guess.track] >>
         ELSE <<>>)
      \o (IF light # <<>> THEN << [q |-> light] >> ELSE <<>>)
      \o (IF heavy # <<>> /\ heavy # light THEN << [q |-> heavy] >> ELSE <<>>)

\* The same for the sample titles, computed once.
ExpectedQueries == [t \in FetchTitleSamples |-> QueriesFor(t)]

\* C17: one call issues exactly the queries of its title and no others:
\* {artist_name, track_name} or {track_name} as parseVideoTitle allows,
\* {q: light} iff light is not empty, {q: heavy} iff heavy is not empty and
\* differs from light; so no free-text string is sent twice.
QueriesAsListed ==
  pc # "idle" =>
    /\ Len(queries) <= Len(ExpectedQueries[callTitle])
    /\ queries = SubSeq(ExpectedQueries[callTitle], 1, Len(queries))
    /\ pc = "returned" => queries = ExpectedQueries[callTitle]
    /\ \A i, j \in DOMAIN queries :
         (i < j /\ DOMAIN queries[i] = {"q"} /\ DOMAIN queries[j] = {"q"}) =>
           queries[i].q # queries[j].q

\* The call for the title "ab", whose light and heavy forms are both "ab",
\* returned after one free-text query.
EqualFormsSentOnce ==
  /\ pc = "returned"
  /\ callTitle = <<"a", "b">>
  /\ queries = << [q |-> <<"a", "b">>] >>
  /\ Len(outcomes) = 1

\* C18: every applicable strategy's query is issued and answered before
\* the filtering and the scoring, whatever the earlier answers held: while
\* a query is outstanding nothing is filtered or scored, and at the return
\* each query of the title was issued and has settled.
NoShortCircuit ==
  /\ pc = "await" =>
       /\ candidates = <<>> /\ scored = <<>> /\ result = <<>>
       /\ Len(outcomes) = Len(queries) - 1
  /\ pc = "returned" =>
       /\ Len(queries) = Len(ExpectedQueries[callTitle])
       /\ Len(outcomes) = Len(queries)

\* A later query is outstanding although the pool already holds a
\* candidate with synced lyrics, and nothing is scored yet.
SearchesOnAfterSynced ==
  /\ pc = "await"
  /\ strategy >= 2
  /\ \E n \in DOMAIN pool :
       ~pool[n].instrumental /\ Truthy(pool[n].syncedLyrics)
  /\ scored = <<>>

(***************************************************************************)
(* fetchLyrics: what videoDuration can change.                             *)
(***************************************************************************)

\* The candidates are the same for every videoDuration.
EligibleForEveryDuration ==
  pc = "returned" =>
    \A d \in DurationSamples : Select(pool, d).candidates = candidates

\* The call returns the empty result under every videoDuration or under
\* none.
EmptyForEveryDurationOrNone ==
  pc = "returned" =>
    \A d \in DurationSamples :
      (Select(pool, d).result = NoLyrics) <=> (result = <<NoLyrics>>)

\* A sole candidate is the selected one.
SoleCandidateSelected ==
  (pc = "returned" /\ Cardinality(Eligible) = 1) =>
    /\ scored # <<>>
    /\ \A n \in Eligible : scored[1].result = pool[n]

\* C19, as stated: videoDuration is never a filter: for a given pool the
\* candidates are the same for every videoDuration, the call returns the
\* empty result {plain: null, synced: []} for one videoDuration iff it does
\* for all, and a sole non-instrumental candidate is selected whatever its
\* duration.
DurationNeverFilters ==
  /\ EligibleForEveryDuration
  /\ EmptyForEveryDurationOrNone
  /\ SoleCandidateSelected

\* With videoDuration = 200 s the call returned the empty result for a
\* pool that gives lyrics when no videoDuration is passed.
DurationEmptiesResult ==
  /\ pc = "returned"
  /\ callDuration = <<200>>
  /\ result = <<NoLyrics>>
  /\ Select(pool, NoDuration).result # NoLyrics

(***************************************************************************)
(* fetchLyrics: synced lyrics without a parseable line.                    *)
(***************************************************************************)

\* The record has a syncedLyrics text, and no line of it parses.
NoParseableLine(r) ==
  NonEmpty(r.syncedLyrics) /\ parsedLrc[r.syncedLyrics] = <<>>

\* C20, as stated: a candidate whose syncedLyrics holds no parseable line
\* counts as a candidate without synced lyrics: it scores as if
\* syncedLyrics were null, and when it is selected the call falls back to
\* plain lyrics whenever a candidate has plain lyrics.
ZeroLinesAsNoSynced ==
  pc = "returned" =>
    /\ \A i \in DOMAIN scored :
         NoParseableLine(scored[i].result) =>
           scored[i].score =
             ExpectedScore([scored[i].result EXCEPT !.syncedLyrics = Null],
                           callDuration)
    /\ (/\ scored # <<>>
        /\ NoParseableLine(scored[1].result)
        /\ \E i \in DOMAIN scored : NonEmpty(scored[i].result.plainLyrics))
         => result[1].plain # Null

\* A candidate without a parseable line and without plain lyrics was
\* selected ahead of a candidate with plain lyrics, when no videoDuration
\* was passed: the call returned the empty result.
UnparseableAheadOfPlain ==
  /\ pc = "returned"
  /\ callDuration = NoDuration
  /\ scored # <<>>
  /\ NoParseableLine(scored[1].result)
  /\ \E i \in DOMAIN scored : NonEmpty(scored[i].result.plainLyrics)
  /\ result = <<NoLyrics>>

(***************************************************************************)
(* parseVideoTitle: where the title is split.                              *)
(***************************************************************************)

\* The title of the call after noise brackets and pipe suffix are removed,
\* trimmed.
CleanedTitle ==
  Trim(RemovePipe(RemoveNoiseBrackets(rawTitle[1], NoiseWordsFrom)))

\* One of ' - ', ' – ', ' — ', ' : ' stands at position k of s.
SeparatorAt(s, k) ==
  /\ k + 2 <= Len(s)
  /\ s[k] = " "
  /\ s[k + 1] \in {"-", EnDash, EmDash, ":"}
  /\ s[k + 2] = " "

SeparatorPlaces(s) == {k \in DOMAIN s : SeparatorAt(s, k)}

\* The result for the text before and the text behind a separator.
GuessOf(first, second) ==
  IF IsLabel(second) THEN [artist |-> Null, track |-> first]
  ELSE [artist |-> first, track |-> second]

\* C21, as stated: the cleaned title is split at the first separator that
\* appears in it, into the trimmed text before and the trimmed text behind
\* that separator, also when other separators or the same one follow.
SplitAtFirstSeparator ==
  titleGuess # <<>> =>
    LET cleaned == CleanedTitle
        places  == SeparatorPlaces(cleaned)
        at      == Min(places)
        first   == Trim(SubSeq(cleaned, 1, at - 1))
        second  == Trim(SubSeq(cleaned, at + 3, Len(cleaned)))
    IN  (places # {} /\ first # <<>> /\ second # <<>>) =>
          titleGuess[1] = GuessOf(first, second)

\* "b : a - s" was split at its ' - ', which stands behind the ' : '.
SplitAtLaterSeparator ==
  /\ rawTitle = << <<"b", " ", ":", " ", "a", " ", "-", " ", "s">> >>
  /\ titleGuess = << [artist |-> <<"b", " ", ":", " ", "a">>,
                      track |-> <<"s">>] >>

\* C22: parseVideoTitle returns {artist: null, track: null} whenever the
\* title, after the removal of noise brackets and pipe suffix and the
\* trim, is empty or holds none of the four separators.
NoGuessWithoutSeparator ==
  titleGuess # <<>> =>
    LET cleaned == CleanedTitle
    IN  (cleaned = <<>> \/ SeparatorPlaces(cleaned) = {}) =>
          titleGuess[1] = [artist |-> Null, track |-> Null]

\* "a - |s" was parsed: the pipe removal and the trim leave "a -", without
\* a separator, and no guess is made.
SeparatorLostToTrim ==
  /\ rawTitle = << <<"a", " ", "-", " ", "|", "s">> >>
  /\ titleGuess = << [artist |-> Null, track |-> Null] >>

(***************************************************************************)
(* fetchLyrics: the returned pair.                                         *)
(***************************************************************************)

\* The pair that one record gives: its plain lyrics, null when it has
\* none, and the parsed lines of its synced lyrics, none when it has none.
PairOf(r) ==
  [plain  |-> IF NonEmpty(r.plainLyrics) THEN r.plainLyrics ELSE Null,
   synced |-> IF NonEmpty(r.syncedLyrics)
                THEN ExpectedLines(Split(r.syncedLyrics, <<"\n">>))
                ELSE <<>>]

\* C23: the returned pair comes from one candidate, the selected one:
\* plain is its plainLyrics, synced the parsed lines of its syncedLyrics;
\* the two are never taken from two different candidates.
SingleCandidateResult ==
  (pc = "returned" /\ Eligible # {}) =>
    /\ scored # <<>>
    /\ \E n \in Eligible : scored[1].result = pool[n]
    /\ result = <<PairOf(scored[1].result)>>

\* The selected candidate has no plain lyrics and no parseable line,
\* another candidate has both, and the call returned neither.
NothingTakenFromRunnerUp ==
  /\ pc = "returned"
  /\ callDuration = <<200>>
  /\ Len(scored) >= 2
  /\ ~NonEmpty(scored[1].result.plainLyrics)
  /\ \E i \in DOMAIN scored :
       /\ NonEmpty(scored[i].result.plainLyrics)
       /\ PairOf(scored[i].result).synced # <<>>
  /\ result = <<NoLyrics>>

(***************************************************************************)
(* The requests of one resolution.                                         *)
(***************************************************************************)

\* One call of fetchLyrics: at most three requests, no query twice, and
\* each request settles before the next is sent.
CallSendsEachQueryOnce ==
  /\ Len(queries) <= 3
  /\ \A i, j \in DOMAIN queries : i # j => queries[i] # queries[j]
  /\ Len(queries) - Len(outcomes) \in {0, 1}
  /\ pc = "returned" => Len(outcomes) = Len(queries)

\* The App: a request is sent only by a run of the fetch effect, one per
\* run, and a request that has settled is not pending again.
EffectSendsOneRequest ==
  /\ Len(attempts') >= Len(attempts)
  /\ Len(attempts') > Len(attempts) =>
       /\ Len(attempts') = Len(attempts) + 1
       /\ videoTitle' # videoTitle
  /\ \A n \in DOMAIN attempts :
       attempts[n].state # "pending" => attempts'[n].state = attempts[n].state

\* C24: within one resolution each query is sent at most once, whether it
\* succeeds or fails: a call of fetchLyrics sends at most three requests,
\* a run of the App's effect one, and a failed request is not sent again.
NoRetries ==
  /\ []CallSendsEachQueryOnce
  /\ [][EffectSendsOneRequest]_vars

\* A call returned after three requests that all failed.
ThreeFailuresThreeRequests ==
  /\ pc = "returned"
  /\ Len(queries) = 3
  /\ outcomes = <<"failed", "failed", "failed">>

(***************************************************************************)
(* fetchLyrics: synced lyrics in the ranking.                              *)
(***************************************************************************)

\* C25: whenever a non-instrumental candidate has non-empty syncedLyrics,
\* the selected candidate has non-empty syncedLyrics, for every pool and
\* videoDuration: a candidate without synced lyrics scores at most 6, one
\* with synced lyrics at least 10.
SyncedDominates ==
  pc = "returned" =>
    /\ \A i \in DOMAIN scored :
         IF NonEmpty(scored[i].result.syncedLyrics)
           THEN scored[i].score >= 10
           ELSE scored[i].score <= 6
    /\ (\E n \in Eligible : NonEmpty(pool[n].syncedLyrics)) =>
         /\ scored # <<>>
         /\ NonEmpty(scored[1].result.syncedLyrics)

\* A candidate with synced lyrics and the least score, 10, was selected
\* ahead of a candidate without synced lyrics and the highest score, 6.
SyncedWinsByLeastMargin ==
  /\ pc = "returned"
  /\ scored # <<>>
  /\ scored[1].score = 10
  /\ NonEmpty(scored[1].result.syncedLyrics)
  /\ \E i \in DOMAIN scored :
       scored[i].score = 6 /\ ~NonEmpty(scored[i].result.syncedLyrics)

(***************************************************************************)
(* The App: the range of the active index, and the status flags.           *)
(***************************************************************************)

\* C26: in every reachable state of the App activeLyricIdx is at least -1
\* and below max(1, syncedLines.length), and it is -1 whenever syncedLines
\* is empty, across title changes, fetch completions, ticks and seeks.
ActiveIndexInRange ==
  /\ activeLyricIdx >= -1
  /\ activeLyricIdx < Max({1, Len(syncedLines)})
  /\ syncedLines = <<>> => activeLyricIdx = -1

\* The last line of the second video's track is the active one.
LastLineActive ==
  /\ videosLoaded = 2
  /\ Len(attempts) = 2
  /\ Len(syncedLines) >= 2
  /\ activeLyricIdx = Len(syncedLines) - 1

\* C27: in every reachable state of the App, lyricsLoading implies an
\* empty lyricsError, lyrics = null and no synced lines; and a non-empty
\* lyricsError implies lyrics = null and no synced lines.
StatusFlagsExclusive ==
  /\ lyricsLoading =>
       (lyricsError = "" /\ lyrics = Null /\ syncedLines = <<>>)
  /\ lyricsError # "" => (lyrics = Null /\ syncedLines = <<>>)

\* The first request was answered after the title changed and dropped;
\* the second failed: the App shows the error and no lyrics.
ErrorAfterStaleAnswer ==
  /\ Len(attempts) = 2
  /\ attempts[1].state = "discarded"
  /\ attempts[2].state = "committed"
  /\ lyricsError = FailedToFetch
  /\ ~lyricsLoading
  /\ lyrics = Null

(***************************************************************************)
(* parseVideoTitle: the shape of the guess.                                *)
(***************************************************************************)

\* C28: parseVideoTitle never returns an artist without a track, and every
\* artist or track it returns is a non-empty string without white space at
\* either end and without a pipe character.
GuessWellFormed ==
  titleGuess # <<>> =>
    LET g == titleGuess[1]
    IN  /\ g.artist # Null => g.track # Null
        /\ \A p \in {g.artist, g.track} \ {Null} :
              /\ p # <<>>
              /\ Trim(p) = p
              /\ ~HasPipe(p)

\* "b : a - |" was parsed: the pipe is gone, the trim takes the blank the
\* pipe left behind, and the split at ' : ' gives artist "b", track "a -".
GuessFromPipedTitle ==
  /\ rawTitle = << <<"b", " ", ":", " ", "a", " ", "-", " ", "|">> >>
  /\ titleGuess = << [artist |-> <<"b">>, track |-> <<"a", " ", "-">>] >>

(***************************************************************************)
(* ElasticVolumeSlider: the range of the volume and of the charge.         *)
(***************************************************************************)

\* C29: every value the slider passes to onChange, from a pointer down, a
\* drag, a click on the track or the impact of the cannonball, is an
\* integer from 0 to 100, and chargeLevel is from 0 to 100 in every state,
\* however many times the charge interval fires.
VolumeRange ==
  /\ chargeLevel \in 0..100
  /\ onChangeCall # <<>> => onChangeCall[1].value \in 0..100

\* A full charge was shot and has landed: onChange(100) came from the
\* impact, and an interval that no release stopped still fires at 100.
FullChargeLanded ==
  /\ onChangeCall = <<[from |-> "animateFlight", value |-> 100]>>
  /\ ~isShooting
  /\ ~charging
  /\ chargeLevel = 100
  /\ intervals # {}

(***************************************************************************)
(* ElasticVolumeSlider: a shot in flight and the pointer.                  *)
(***************************************************************************)

\* C30: while isShooting is true no step changes the volume or calls
\* onChange except the impact, which ends the flight, and no charge
\* starts, whatever the pointers do on the track and on the cannon button.
ShotOwnsVolume ==
  [][isShooting =>
       /\ (volume' # volume \/ onChangeCall' # onChangeCall) =>
            (onChangeCall'[1].from = "animateFlight" /\ ~isShooting')
       /\ ~(~charging /\ charging')]_vars

\* A flight is under way, half its time gone, while a drag that began
\* before the release is still live and has moved the volume.
DragLiveInFlight ==
  /\ isShooting
  /\ elapsed = 300
  /\ dragging
  /\ onChangeCall # <<>>
  /\ onChangeCall[1].from = "onPointerMove"

(***************************************************************************)
(* ElasticVolumeSlider: from the release of the cannon to the impact.      *)
(***************************************************************************)

\* The cannon is let go in this step: handleChargeEnd passed its guard.
Released == charging /\ ~charging'

\* The impact of a flight, as onChange saw it.
ImpactCall(level) == <<[from |-> "animateFlight", value |-> level]>>

\* C31: a release at a charge level L > 0 starts one flight, with no other
\* flight under way, and that flight, while the component stays mounted
\* and animation frames keep coming, ends with one call onChange(L) that
\* sets isShooting back to false and leaves no frame requested; a release
\* at level 0 starts no flight and leaves the volume as it is.
ReleaseFiresOneShot ==
  /\ [][Released =>
          IF chargeLevel > 0
            THEN /\ ~isShooting
                 /\ isShooting'
                 /\ target' = chargeLevel
                 /\ UNCHANGED <<volume, onChangeCall>>
            ELSE /\ ~isShooting'
                 /\ ~shootRaf'
                 /\ UNCHANGED <<volume, onChangeCall>>]_vars
  /\ [][isShooting /\ target' # target =>
          /\ onChangeCall' = ImpactCall(target)
          /\ volume' = target
          /\ ~isShooting'
          /\ ~shootRaf']_vars
  /\ [][onChangeCall' # onChangeCall /\ onChangeCall'[1].from = "animateFlight" =>
          isShooting /\ ~isShooting' /\ onChangeCall' = ImpactCall(target)]_vars
  /\ [](isShooting => target > 0)
  /\ [](shootRaf => isShooting)
  /\ (isShooting ~> (~isShooting \/ ~mounted))

\* A charge let go at level 50 has landed: onChange(50) came from the
\* impact, no flight is under way and no interval is left.
HalfChargeLanded ==
  /\ onChangeCall = ImpactCall(50)
  /\ volume = 50
  /\ ~isShooting
  /\ ~shootRaf
  /\ ~charging
  /\ chargeLevel = 50
  /\ intervals = {}

(***************************************************************************)
(* ElasticVolumeSlider: the charge interval.                               *)
(***************************************************************************)

\* C32: at most one charge interval runs at any time, and none runs while
\* charging is false, after a release or the unmount, whatever pointer
\* downs, ups and leaves reach the cannon button.
OneChargeTimer ==
  /\ Cardinality(intervals) <= 1
  /\ ~charging => intervals = {}

\* Two pointer downs without a release started two intervals; the release
\* and the unmount each stopped the one chargeRef names, so the first
\* still runs on the unmounted component.
IntervalOutlivesUnmount ==
  /\ ~mounted
  /\ ~charging
  /\ chargeRef = 0
  /\ intervals = {1}

====
